---- MODULE Spec2Model ----
(***************************************************************************)
(* Model of src/src/index.ts: the POST /v1/chat/completions handler of the *)
(* gateway (API key check, session token acquisition, request translation, *)
(* backend chat call, the SSE bridge and the non-streaming aggregation).   *)
(*                                                                         *)
(* Text is modelled at the level of single bytes and single UTF-16 code    *)
(* units: a backend body is a sequence of bytes, a decoded string is a     *)
(* sequence of one-character strings.  The bytes 0xC3 0xA9 (the UTF-8      *)
(* encoding of U+00E9) are written "C3" and "A9", the decoded character is *)
(* written "U+E9" and the replacement character "U+FFFD".                  *)
(* Timestamps (Date.now()) are left out of the frames.                     *)
(***************************************************************************)
EXTENDS Integers, Sequences, FiniteSets, TLC

VARIABLES
    req,        \* the inbound request and the operator's environment
    pc,         \* the await at which the handler or its callback is suspended
    x4,         \* let x4 (index.ts:143)
    probes,     \* number of fetch(statusURL) calls issued
    probed,     \* what the fetch(statusURL) calls came back with, in order
    chats,      \* the fetch(chatURL) calls issued, in order
    chatted,    \* what the fetch(chatURL) calls came back with, in order
    requestParams, \* const requestParams (index.ts:134)
    response,   \* what the handler returned to the caller
    echo,       \* the x-vqd-4 response header set by c.header (index.ts:174)
    body,       \* the bytes of the backend chat response body
    pos,        \* number of bytes of body already handed out by reader.read()
    reader,     \* "none", "held" or "released"
    releases,   \* number of reader.releaseLock() calls
    decoder,    \* bytes the streaming TextDecoder holds back
    buffer,     \* let buffer (index.ts:186)
    parts,      \* the parts the for loop of index.ts:199 has still to run on
    writing,    \* the stream.writeSSE call whose completion is awaited, if any
    handed,     \* the parts the for loop of index.ts:199 has run on, in order
    out,        \* the frames stream.writeSSE has passed on to the caller, in order
    exit,       \* how the streamSSE callback ended
    caller,     \* "connected", or "gone" once the caller has disconnected
    backend,    \* which replies the backend has for a chat call: "any" or "short"
    parked      \* the other requests in flight, suspended at an await

vars == <<req, pc, x4, probes, probed, chats, chatted, requestParams, response, echo, body,
          pos, reader, releases, decoder, buffer, parts, writing, handed, out, exit, caller,
          backend, parked>>

-----------------------------------------------------------------------------
(* Bounds of the model *)

\* lines of a backend body in the bridge specification
MaxLines == 3
\* lines of a backend body in the aggregation specification
AggregateLines == 4
\* lines of a backend body in the whole-handler specification
HandlerLines == 1
\* messages of a chat request in the translation specification
MaxMsgs == 2
\* bytes of a chunk that is not all that is left of the body
MaxChunk == 10
\* lines of a backend body in the line-prefix specification
PrefixLines == 2

-----------------------------------------------------------------------------
(* Text helpers *)

NL == "\n"
Undefined == <<"undefined">>
Absent == <<"absent">>

Last(s) == s[Len(s)]
Front(s) == SubSeq(s, 1, Len(s) - 1)

HasSuffix(s, p) == Len(s) >= Len(p) /\ SubSeq(s, Len(s) - Len(p) + 1, Len(s)) = p

RECURSIVE Concat(_)
Concat(ss) == IF ss = <<>> THEN <<>> ELSE Head(ss) \o Concat(Tail(ss))

PrefixLen == 6
DataPrefix == <<"d", "a", "t", "a", ":", " ">>
DoneText == <<"[", "D", "O", "N", "E", "]">>

\* String.prototype.substring(6)
Substring6(part) == SubSeq(part, PrefixLen + 1, Len(part))

Max(S) == CHOOSE x \in S : \A y \in S : y <= x
Min(S) == CHOOSE x \in S : \A y \in S : x <= y

\* The element of a set of one element: an operator that looks at a value
\* more than once takes it from such a set
Only(S) == CHOOSE x \in S : TRUE

\* String.prototype.indexOf(c) for a single character, counted from 1;
\* 0 when c does not occur
IndexOf(s, c) ==
    LET at == {i \in 1..Len(s) : s[i] = c}
    IN  IF at = {} THEN 0 ELSE Min(at)

\* The number of characters c directly before position i of s
RunBefore(s, c, i) ==
    IF i = 1 \/ s[i - 1] # c THEN 0
    ELSE i - 1 - Max({0} \cup {j \in 1..(i - 1) : s[j] # c})

\* The places where split finds the separator, scanning from the left and
\* resuming after each match.  The separators of the program are a newline
\* and two newlines: sep is one character repeated.
SeparatorStarts(s, sep) ==
    {i \in 1..(Len(s) - Len(sep) + 1) :
        /\ \A k \in 1..Len(sep) : s[i + k - 1] = sep[k]
        /\ (Len(sep) = 1 \/ RunBefore(s, sep[1], i) % Len(sep) = 0)}

\* String.prototype.split(sep)
Split(s, sep) ==
    LET starts == SeparatorStarts(s, sep)
        m == Cardinality(starts)
        nth == [k \in 1..m |-> CHOOSE i \in starts :
                                   Cardinality({j \in starts : j < i}) = k - 1]
    IN  [k \in 1..(m + 1) |->
            SubSeq(s, IF k = 1 THEN 1 ELSE nth[k - 1] + Len(sep),
                      IF k = m + 1 THEN Len(s) ELSE nth[k] - 1)]

-----------------------------------------------------------------------------
(* TextDecoder (UTF-8) *)

IsLead(b) == b = "C3"
IsCont(b) == b = "A9"
Replacement == "U+FFFD"
TwoByteChar(lead, cont) == "U+E9"

Skip == "skip"
NotSkip(c) == c # Skip

\* The decoder holds back a lead byte until the next byte arrives.  Byte i of
\* bytes, met with or without a lead byte held back, yields at most two
\* characters: the replacement character for a lead byte that is not
\* continued, then its own contribution.
HeldBefore(held, bytes, i) ==
    IF i = 1 THEN held # <<>> ELSE IsLead(bytes[i - 1])

BrokenLead(held, bytes, i) ==
    IF HeldBefore(held, bytes, i) /\ ~IsCont(bytes[i]) THEN Replacement ELSE Skip

DecodedByte(held, bytes, i) ==
    IF IsCont(bytes[i])
    THEN IF HeldBefore(held, bytes, i)
         THEN TwoByteChar(IF i = 1 THEN held[1] ELSE bytes[i - 1], bytes[i])
         ELSE Replacement
    ELSE IF IsLead(bytes[i]) THEN Skip
    ELSE bytes[i]

DecodeBytes(held, bytes) ==
    [chars |->
        SelectSeq([j \in 1..(2 * Len(bytes)) |->
                      IF j % 2 = 1 THEN BrokenLead(held, bytes, (j + 1) \div 2)
                      ELSE DecodedByte(held, bytes, j \div 2)],
                  NotSkip),
     lead |-> IF bytes = <<>> THEN held
              ELSE IF IsLead(bytes[Len(bytes)]) THEN <<bytes[Len(bytes)]>>
              ELSE <<>>]

\* decoder.decode(value, {stream: true}): an incomplete sequence at the end of
\* the chunk is held back for the next call.
DecodeStream(held, value) == DecodeBytes(held, value)

\* A one-shot decode, as resp.text() does: an incomplete sequence at the end
\* becomes the replacement character.
DecodeAll(bytes) ==
    LET st == DecodeBytes(<<>>, bytes)
    IN  IF st.lead # <<>> THEN Append(st.chars, Replacement) ELSE st.chars

-----------------------------------------------------------------------------
(* JSON.parse and the two conversions of its result the program relies on:   *)
(* JSON.stringify (the frame written) and String (the += of index.ts:268).   *)
(* A character is a one-character string; the code units U+0000 to U+001F    *)
(* other than \t, \n, \f and \r, U+0060 and those above U+007E are written    *)
(* "U+" followed by their hexadecimal number.  A number is the double        *)
(* nearest to its token, written with the fewest digits that round to it.    *)

JsonSpace == {" ", NL, "\r", "\t"}
Digits == {"0", "1", "2", "3", "4", "5", "6", "7", "8", "9"}
Quote == "\""
Backslash == "\\"

HexLower == <<"0", "1", "2", "3", "4", "5", "6", "7", "8", "9", "a", "b", "c", "d", "e", "f">>
HexUpper == <<"0", "1", "2", "3", "4", "5", "6", "7", "8", "9", "A", "B", "C", "D", "E", "F">>

\* The characters U+0020 to U+007E
Ascii ==
    <<" ", "!", "\"", "#", "$", "%", "&", "'", "(", ")", "*", "+", ",", "-", ".", "/",
      "0", "1", "2", "3", "4", "5", "6", "7", "8", "9", ":", ";", "<", "=", ">", "?",
      "@", "A", "B", "C", "D", "E", "F", "G", "H", "I", "J", "K", "L", "M", "N", "O",
      "P", "Q", "R", "S", "T", "U", "V", "W", "X", "Y", "Z", "[", "\\", "]", "^", "_",
      "U+60", "a", "b", "c", "d", "e", "f", "g", "h", "i", "j", "k", "l", "m", "n", "o",
      "p", "q", "r", "s", "t", "u", "v", "w", "x", "y", "z", "{", "|", "}", "~">>

RECURSIVE HexName(_)
HexName(n) ==
    IF n < 16 THEN HexUpper[n + 1] ELSE HexName(n \div 16) \o HexUpper[(n % 16) + 1]

\* The character with the code n
CodeUnit(n) ==
    IF n \in 32..126 THEN Ascii[n - 31]
    ELSE IF n = 9 THEN "\t"
    ELSE IF n = 10 THEN NL
    ELSE IF n = 12 THEN "\f"
    ELSE IF n = 13 THEN "\r"
    ELSE "U+" \o HexName(n)

\* The code units U+0000 to U+001F
ControlChars == {CodeUnit(n) : n \in 0..31}

At(s, i) == IF i \in 1..Len(s) THEN s[i] ELSE "end"

\* The text lit stands at position i of s
HasAt(s, i, lit) == i + Len(lit) - 1 <= Len(s) /\ SubSeq(s, i, i + Len(lit) - 1) = lit

\* The first position from i on that holds no white space
SkipSpace(s, i) ==
    IF At(s, i) \notin JsonSpace THEN i
    ELSE Min({j \in i..Len(s) : s[j] \notin JsonSpace} \cup {Len(s) + 1})

\* The first position from i on that holds no digit
DigitRunEnd(s, i) ==
    Min({j \in i..Len(s) : s[j] \notin Digits} \cup {Len(s) + 1})

Zeros(n) == [j \in 1..n |-> "0"]

DigitValue(c) == IndexOf(HexUpper, c) - 1

RECURSIVE IntText(_)
IntText(n) ==
    IF n < 10 THEN <<HexUpper[n + 1]>>
    ELSE Append(IntText(n \div 10), HexUpper[(n % 10) + 1])

\* A parsed value: its kind, what JSON.stringify makes of it (json, left
\* empty for a string), what String makes of it (str), and for an object its
\* members role and message
Value(kind, json, str) ==
    [ok |-> TRUE, next |-> 0, kind |-> kind, json |-> json, str |-> str,
     role |-> Undefined, message |-> Undefined, text |-> <<>>]
Fail ==
    [ok |-> FALSE, next |-> 0, kind |-> "throws", json |-> <<>>, str |-> <<>>,
     role |-> Undefined, message |-> Undefined, text |-> <<>>]
Ending(v, next) == [v EXCEPT !.next = next]

\* A value as a field of a frame: a string is its characters, any other
\* value is its kind followed by its JSON text
Repr(v) == IF v.kind = "string" THEN v.str ELSE <<v.kind>> \o v.json

(* Whole numbers of any size *)

\* A whole number is the sequence of its limbs, base 1000, the least
\* significant first and the last one not zero; zero is the empty sequence.
\* A limb holds three decimal digits.
Base == 10 * 10 * 10

Limb(a, i) == IF i \in 1..Len(a) THEN a[i] ELSE 0

\* a without the zero limbs at its end
Trim(a) ==
    SubSeq(a, 1, Len(a) - Min({k \in 0..Len(a) : k = Len(a) \/ a[Len(a) - k] # 0}))

\* Columns below 10^9 brought nearer to limbs: each column gives its two
\* upper parts to the next two columns.  Columns below 10^9 become columns
\* below 3000, and these become columns below 1002.
Spread(x) ==
    [i \in 1..(Len(x) + 2) |->
        (Limb(x, i) % Base) + ((Limb(x, i - 1) \div Base) % Base)
            + (Limb(x, i - 2) \div (Base * Base))]

\* The carry into column i of columns below 1002: a column of 1000 or more
\* gives one, a column of 999 passes on the one it receives
CarryInto(w, i) ==
    IF i = 1 THEN 0
    ELSE IF w[i - 1] # Base - 1 THEN (IF w[i - 1] >= Base THEN 1 ELSE 0)
    ELSE IF \E j \in 1..(i - 2) : w[j] >= Base /\ \A k \in (j + 1)..(i - 2) : w[k] = Base - 1
    THEN 1
    ELSE 0

Ripple(w) == [i \in 1..(Len(w) + 1) |-> (Limb(w, i) + CarryInto(w, i)) % Base]

\* The whole number of the columns x, each below 10^9
Carry(x) == Trim(Ripple(Spread(Spread(x))))

\* Column k of a times b, summed over the limbs lo to hi of a
RECURSIVE Column(_, _, _, _, _)
Column(a, b, k, lo, hi) ==
    IF lo = hi THEN a[lo] * b[k + 1 - lo]
    ELSE Column(a, b, k, lo, (lo + hi) \div 2) + Column(a, b, k, ((lo + hi) \div 2) + 1, hi)

\* a times b, for two numbers of which one has at most 1000 limbs
Times(a, b) ==
    IF a = <<>> \/ b = <<>> THEN <<>>
    ELSE Carry([k \in 1..(Len(a) + Len(b) - 1) |->
                   Column(a, b, k, IF k > Len(b) THEN k + 1 - Len(b) ELSE 1,
                          IF k < Len(a) THEN k ELSE Len(a))])

\* a times n and a plus n, for n below 10^6
TimesSmall(a, n) == Carry([i \in 1..Len(a) |-> a[i] * n])
PlusSmall(a, n) ==
    Carry([i \in 1..(IF a = <<>> THEN 1 ELSE Len(a)) |->
              Limb(a, i) + (IF i = 1 THEN n ELSE 0)])

\* a - b, for a >= b
Minus(a, b) ==
    Trim(SubSeq(Carry([i \in 1..Len(a) |->
                          a[i] + (Base - 1 - Limb(b, i)) + (IF i = 1 THEN 1 ELSE 0)]),
                1, Len(a)))

\* -1, 0 or 1 as x comes before, with or after y: two whole numbers of as
\* many limbs, which differ at limb k and at none after it, or two runs of as
\* many digits, which differ at digit k and at none before it
Order(x, y, k) == IF k = 0 THEN 0 ELSE IF x[k] < y[k] THEN -1 ELSE 1

Compare(a, b) ==
    IF Len(a) # Len(b) THEN (IF Len(a) < Len(b) THEN -1 ELSE 1)
    ELSE Order(a, b, Len(a) - Min({k \in 0..Len(a) : k = Len(a) \/ a[Len(a) - k] # b[Len(a) - k]}))

CompareDigits(x, y) ==
    Order(x, y, Min({k \in 1..(Len(x) + 1) : k > Len(x) \/ x[k] # y[k]}) % (Len(x) + 1))

\* b to the power n, for b below 1000; 1 for a negative n
RECURSIVE Power(_, _)
Power(b, n) ==
    IF n <= 0 THEN <<1>>
    ELSE Only({IF n % 2 = 1 THEN TimesSmall(Times(x, x), b) ELSE Times(x, x) :
                 x \in {Power(b, n \div 2)}})

TenTo(k) == IF k = 0 THEN 1 ELSE IF k = 1 THEN 10 ELSE 100

\* The whole number of the decimal digits ds
DigitAt(ds, i) == IF i \in 1..Len(ds) THEN DigitValue(ds[i]) ELSE 0
FromDigits(ds) ==
    Trim([k \in 1..((Len(ds) + 2) \div 3) |->
             DigitAt(ds, Len(ds) + 3 - (3 * k)) + (10 * DigitAt(ds, Len(ds) + 2 - (3 * k)))
                 + (100 * DigitAt(ds, Len(ds) + 1 - (3 * k)))])

\* The last width decimal digits of a, the most significant first
ToDigits(a, width) ==
    [p \in 1..width |-> (Limb(a, ((width - p) \div 3) + 1) \div TenTo((width - p) % 3)) % 10]

\* How many times q goes into r, which is less than 1000 times: the first
\* limbs of r by those of q is that number or as much as two less
GoesAbout(q, r, n) ==
    (Limb(r, n - 1) + (Base * Limb(r, n)) + (Base * Base * Limb(r, n + 1)))
        \div ((Base * q[n]) + Limb(q, n - 1) + 1)
GoesFrom(q, r, d) == d + Cardinality({j \in 1..2 : Compare(TimesSmall(q, d + j), r) <= 0})
GoesInto(q, r) == GoesFrom(q, r, GoesAbout(q, r, Len(q)))

\* r divided by q, for a quotient of at most k + 1 limbs, quot being the
\* limbs found before: the quotient and the remainder
RECURSIVE Divide(_, _, _, _)
Divide(r, q, k, quot) ==
    IF k < 0 THEN [quot |-> Trim(quot), rem |-> r]
    ELSE Only({Divide(Minus(r, TimesSmall([i \in 1..k |-> 0] \o q, d)), q, k - 1, <<d>> \o quot) :
                 d \in {GoesInto([i \in 1..k |-> 0] \o q, r)}})

(* Numbers *)

\* The value of the digits ds of an exponent, and cap when it is cap or more
RECURSIVE DigitsValue(_, _)
DigitsValue(ds, cap) ==
    IF ds = <<>> THEN 0
    ELSE Min({cap, (10 * DigitsValue(Front(ds), cap)) + DigitValue(Last(ds))})
ExponentValue(ds, cap, lead) ==
    IF Len(ds) - lead > 9 THEN cap ELSE DigitsValue(SubSeq(ds, lead + 1, Len(ds)), cap)

\* A number token t whose integer digits start at a and end before ie, whose
\* fraction ends before fe and whose exponent digits start at es and end
\* before ee (fe = ie without fraction, es = ee = fe without exponent): its
\* sign, its digits, the place of its decimal point among them, the sign and
\* the digits of its exponent, and whether it follows the grammar of a JSON
\* number
NumberToken(t, a, ie, fe, es, ee) ==
    [neg |-> a = 2,
     digits |-> SubSeq(t, a, ie - 1) \o SubSeq(t, ie + 1, fe - 1),
     point |-> ie - a,
     exp |-> [neg |-> At(t, fe + 1) = "-", digits |-> SubSeq(t, es, ee - 1)],
     valid |-> /\ ie > a
               /\ (ie = a + 1 \/ t[a] # "0")
               /\ (At(t, ie) = "." => fe > ie + 1)
               /\ (At(t, fe) \in {"e", "E"} => ee > es)
               /\ ee = Len(t) + 1]

NumberExponent(t, a, ie, fe, es) ==
    NumberToken(t, a, ie, fe, es, IF es > fe THEN DigitRunEnd(t, es) ELSE fe)

NumberFraction(t, a, ie, fe) ==
    NumberExponent(t, a, ie, fe,
                   IF At(t, fe) \notin {"e", "E"} THEN fe
                   ELSE IF At(t, fe + 1) \in {"+", "-"} THEN fe + 2
                   ELSE fe + 1)

NumberInteger(t, a, ie) ==
    NumberFraction(t, a, ie, IF At(t, ie) = "." THEN DigitRunEnd(t, ie + 1) ELSE ie)

\* The parts of the number token t
NumberParts(t) ==
    NumberInteger(t, IF At(t, 1) = "-" THEN 2 ELSE 1,
                  DigitRunEnd(t, IF At(t, 1) = "-" THEN 2 ELSE 1))

\* The double m * 2^q nearest to the quotient dv of a number by 2^(q - s),
\* sticky telling that the number is more than that quotient: the last s
\* bits are rounded away, a tie to the even neighbour
Normal(m, q) ==
    IF Compare(m, Power(2, 53)) = 0 THEN [m |-> Power(2, 52), q |-> q + 1]
    ELSE [m |-> m, q |-> q]
RoundsUp(dv, above, sticky) ==
    above > 0 \/ (above = 0 /\ (sticky \/ Limb(dv.quot, 1) % 2 = 1))
Rounded(dv, half, sticky, q) ==
    Normal(IF RoundsUp(dv, Compare(dv.rem, half), sticky) THEN PlusSmall(dv.quot, 1)
           ELSE dv.quot, q)
Shifted(t, sticky, qd, s) ==
    Only({Rounded(dv, Power(2, s - 1), sticky, qd + s) : dv \in {Divide(t, Power(2, s), 5, <<>>)}})
Quotient(dv, qd) ==
    Shifted(dv.quot, dv.rem # <<>>, qd,
            1 + Cardinality({j \in 1..6 : Compare(dv.quot, Power(2, 53 + j)) >= 0}))

\* The double nearest to d * 10^e, which is at least 2^(qd + 53) unless qd is
\* -1075, one place below the last bit of the smallest doubles
Scaled(d, e, qd) ==
    Only({Quotient(dv, qd) :
            dv \in {Divide(Times(Times(d, Power(5, e)), Power(2, e - qd)),
                           Times(Power(5, -e), Power(2, qd - e)), 5, <<>>)}})

\* A number below the binary logarithm of 10^(n - 1), by less than 3
BinaryFloor(n) == (((n - 1) * 3321928) \div 1000000) - 1

\* No double lies half way between two doubles at more than 767 digits: the
\* digits after MaxDigits only tell that there is something after them
MaxDigits == 800
Kept(sig) == IF Len(sig) > MaxDigits THEN SubSeq(sig, 1, MaxDigits) \o <<"1">> ELSE sig

\* The double nearest to 0.sig * 10^n, as m * 2^q with m below 2^53, for n
\* in -323..309 and digits sig that neither start nor end with 0
NearestTo(sig, n) ==
    Scaled(FromDigits(sig), n - Len(sig), Max({BinaryFloor(n) - 53, -1075}))
DoubleOf(sig, n) == NearestTo(Kept(sig), n)

\* The digits w cut after p places, and the next number of p places above
Down(w, p) == [i \in 1..Len(w) |-> IF i <= p THEN w[i] ELSE 0]
UpAt(w, j) == [i \in 1..Len(w) |-> IF i < j THEN w[i] ELSE IF i = j THEN w[j] + 1 ELSE 0]
Up(w, p) == UpAt(w, p - Min({k \in 0..(p - 1) : w[p - k] # 9}))

\* They round to the double whose value is w, the doubles next to it being
\* half way at l and h: the ends belong to the double with the even m
DownFits(w, l, even, p) == CompareDigits(Down(w, p), l) > (IF even THEN -1 ELSE 0)
UpFits(w, h, even, p) == CompareDigits(Up(w, p), h) < (IF even THEN 1 ELSE 0)

\* w is nearer to the number above than to the one below, a tie going to
\* the even digit
UpNearer(w, p) ==
    /\ p < Len(w)
    /\ \/ w[p + 1] > 5
       \/ /\ w[p + 1] = 5
          /\ (w[p] % 2 = 1 \/ \E i \in (p + 2)..Len(w) : w[i] # 0)

Nearer(w, l, h, even, p) ==
    IF ~UpFits(w, h, even, p) THEN Down(w, p)
    ELSE IF ~DownFits(w, l, even, p) THEN Up(w, p)
    ELSE IF UpNearer(w, p) THEN Up(w, p)
    ELSE Down(w, p)

\* The digits that end at place last, which p places of digits precede the
\* decimal point of: the significant ones and the place of the point
SignificantOf(c, first, last, point) ==
    [sig |-> [i \in 1..(last - first + 1) |-> HexUpper[c[first + i - 1] + 1]],
     n |-> point - first + 1]
Stripped(c, point) ==
    SignificantOf(c, Min({i \in 1..Len(c) : c[i] # 0}),
            Len(c) + 1 - Min({k \in 1..Len(c) : c[Len(c) + 1 - k] # 0}), point)

\* The shortest digits that round to the double: the fewest places p, counted
\* within the zeros lead and 17 digits
FewestPlaces(w, l, h, even, lead) ==
    Min({p \in (lead + 1)..Min({Len(w), lead + 18}) :
            DownFits(w, l, even, p) \/ UpFits(w, h, even, p)})
ShortestIn(w, l, h, even, e10) ==
    Only({Stripped(c, Len(w) + e10) :
            c \in {Nearer(w, l, h, even,
                          FewestPlaces(w, l, h, even, Min({i \in 1..Len(w) : w[i] # 0}) - 1))}})
ShortestOf(f, lo, hi, width, even, e10) ==
    Only({ShortestIn(w, l, h, even, e10) :
            w \in {ToDigits(f, width)}, l \in {ToDigits(lo, width)}, h \in {ToDigits(hi, width)}})
ShortestBy(f, low, u, even, e10) ==
    Only({ShortestOf(Times(f, x), Times(low, x), Times(PlusSmall(f, 2), x),
                     3 * (Len(f) + Len(x) + 2), even, e10) : x \in {u}})
\* The double is f quarters of 2^q; half way to the double below it is two
\* quarters less, or one when the doubles below lie twice as close
Quarters(m, q, f) ==
    ShortestBy(f, Minus(f, IF q > -1074 /\ Compare(m, Power(2, 52)) = 0 THEN <<1>> ELSE <<2>>),
               IF q >= 2 THEN Power(2, q - 2) ELSE Power(5, 2 - q),
               m[1] % 2 = 0, IF q >= 2 THEN 0 ELSE q - 2)
\* Number::toString chooses the digits and the place of the point of a double
Shortest(m, q) == Quarters(m, q, TimesSmall(m, 4))

InfinityText == <<"I", "n", "f", "i", "n", "i", "t", "y">>

\* Number::toString writes the number 0.sig * 10^n
Layout(sign, sig, n) ==
    IF Len(sig) <= n /\ n <= 21 THEN sign \o sig \o Zeros(n - Len(sig))
    ELSE IF 0 < n /\ n <= 21
    THEN sign \o SubSeq(sig, 1, n) \o <<".">> \o SubSeq(sig, n + 1, Len(sig))
    ELSE IF -6 < n /\ n <= 0 THEN sign \o <<"0", ".">> \o Zeros(-n) \o sig
    ELSE sign \o <<sig[1]>>
            \o (IF Len(sig) = 1 THEN <<>> ELSE <<".">> \o SubSeq(sig, 2, Len(sig)))
            \o <<"e", IF n < 1 THEN "-" ELSE "+">> \o IntText(IF n < 1 THEN 1 - n ELSE n - 1)

\* Number::toString of the double d: zero has no sign, a double of 2^1024 or
\* more is Infinity
DoubleText(sign, d) ==
    IF d.m = <<>> THEN <<"0">>
    ELSE IF d.q > 971 THEN sign \o InfinityText
    ELSE Only({Layout(sign, s.sig, s.n) : s \in {Shortest(d.m, d.q)}})

\* Number::toString of the double nearest to 0.sig * 10^n, sig being digits
\* that neither start nor end with 0.  A number of 10^309 or more is beyond
\* every double, one below 10^-324 is nearer to zero than to any other
\* double, and one of at most 15 digits between 10^-307 and 10^308 is the
\* shortest number that rounds to its double.
DecimalText(sign, sig, n) ==
    IF sig = <<>> \/ n < -323 THEN <<"0">>
    ELSE IF n > 309 THEN sign \o InfinityText
    ELSE IF Len(sig) <= 15 /\ n \in -306..308 THEN Layout(sign, sig, n)
    ELSE Only({DoubleText(sign, d) : d \in {DoubleOf(sig, n)}})

\* The digits ds without the lead zeros at their start and those at their
\* end, the exponent e counting from the decimal point
Significant(sign, ds, point, e, lead) ==
    DecimalText(sign,
                SubSeq(ds, lead + 1,
                       Len(ds) - Min({k \in 0..Len(ds) : k = Len(ds) \/ ds[Len(ds) - k] # "0"})),
                point + e - lead)

\* The exponent of a token of the parts p.  A token of d digits whose
\* exponent is d + 400 or more denotes 10^400 or more, one whose exponent
\* is -(d + 400) or less denotes less than 10^-400: Infinity and 0 whatever
\* the exponent beyond
ExponentOf(e, cap) ==
    (IF e.neg THEN -1 ELSE 1)
        * ExponentValue(e.digits, cap,
                        Min({j \in 1..Len(e.digits) : e.digits[j] # "0"}
                                \cup {Len(e.digits) + 1}) - 1)

\* Number::toString of the number a valid token of the parts p denotes
NumberTextOf(p) ==
    Significant(IF p.neg THEN <<"-">> ELSE <<>>, p.digits, p.point,
                ExponentOf(p.exp, Len(p.digits) + 400),
                Min({j \in 1..Len(p.digits) : p.digits[j] # "0"}
                        \cup {Len(p.digits) + 1}) - 1)

NullText == <<"n", "u", "l", "l">>
TrueText == <<"t", "r", "u", "e">>
FalseText == <<"f", "a", "l", "s", "e">>

NumberValue(text, end) ==
    Ending(Value("number", IF HasSuffix(text, InfinityText) THEN NullText ELSE text, text), end)

\* The number token of the parts p, which ends before position end
NumberEnding(p, end) == IF p.valid THEN NumberValue(NumberTextOf(p), end) ELSE Fail

NumberUpTo(s, i, end) ==
    Only({NumberEnding(NumberParts(t), end) : t \in {SubSeq(s, i, end - 1)}})

\* The number token that starts at i
ParseNumber(s, i) ==
    NumberUpTo(s, i, Min({j \in i..Len(s) : s[j] \notin Digits \cup {"-", "+", ".", "e", "E"}}
                             \cup {Len(s) + 1}))

(* Strings *)

SimpleEscapes == {Quote, Backslash, "/", "b", "f", "n", "r", "t"}

\* s[k] is a backslash that starts an escape sequence
EscapeStart(s, k) == s[k] = Backslash /\ RunBefore(s, Backslash, k) % 2 = 0
\* s[k] is the character after such a backslash
Escaped(s, k) == k > 1 /\ EscapeStart(s, k - 1)
\* s[k] is one of the four characters after \u
HexOfEscape(s, k) ==
    \E d \in 1..4 : k - d >= 1 /\ s[k - d] = "u" /\ Escaped(s, k - d)

IsHex(c) == IndexOf(HexLower, c) > 0 \/ IndexOf(HexUpper, c) > 0
HexValue(c) ==
    IF IndexOf(HexLower, c) > 0 THEN IndexOf(HexLower, c) - 1 ELSE IndexOf(HexUpper, c) - 1

\* The place of the quote that closes the string literal opened at i, or 0
StringEnd(s, i) ==
    Min({j \in (i + 1)..Len(s) : s[j] = Quote /\ RunBefore(s, Backslash, j) % 2 = 0}
            \cup {Len(s) + 1}) % (Len(s) + 1)

\* Character k of a string literal that ends at e is allowed where it is
CharAllowed(s, k, e) ==
    IF HexOfEscape(s, k) THEN IsHex(s[k])
    ELSE IF Escaped(s, k) THEN s[k] \in SimpleEscapes \/ (s[k] = "u" /\ k + 4 < e)
    ELSE IF EscapeStart(s, k) THEN TRUE
    ELSE s[k] \notin ControlChars

\* What character k of a string literal adds to the string
CharDecoded(s, k) ==
    IF HexOfEscape(s, k) \/ (~Escaped(s, k) /\ EscapeStart(s, k)) THEN Skip
    ELSE IF ~Escaped(s, k) THEN s[k]
    ELSE IF s[k] = "u"
    THEN CodeUnit(4096 * HexValue(s[k + 1]) + 256 * HexValue(s[k + 2])
                      + 16 * HexValue(s[k + 3]) + HexValue(s[k + 4]))
    ELSE IF s[k] = "b" THEN CodeUnit(8)
    ELSE IF s[k] = "f" THEN "\f"
    ELSE IF s[k] = "n" THEN NL
    ELSE IF s[k] = "r" THEN "\r"
    ELSE IF s[k] = "t" THEN "\t"
    ELSE s[k]

\* JSON.stringify of one character of a string, but a surrogate
QuotedChar(c) ==
    IF c = Quote \/ c = Backslash THEN <<Backslash, c>>
    ELSE IF c \notin ControlChars THEN <<c>>
    ELSE IF c = CodeUnit(8) THEN <<Backslash, "b">>
    ELSE IF c = "\f" THEN <<Backslash, "f">>
    ELSE IF c = NL THEN <<Backslash, "n">>
    ELSE IF c = "\r" THEN <<Backslash, "r">>
    ELSE IF c = "\t" THEN <<Backslash, "t">>
    ELSE LET n == CHOOSE m \in 0..31 : CodeUnit(m) = c
         IN  <<Backslash, "u", "0", "0", HexLower[(n \div 16) + 1], HexLower[(n % 16) + 1]>>

\* The code units U+D800 to U+DBFF and U+DC00 to U+DFFF
HighSurrogates == {CodeUnit(n) : n \in 55296..56319}
LowSurrogates == {CodeUnit(n) : n \in 56320..57343}

\* Character j of chars is a surrogate that is no half of a pair
LoneSurrogate(chars, j) ==
    \/ chars[j] \in HighSurrogates /\ At(chars, j + 1) \notin LowSurrogates
    \/ chars[j] \in LowSurrogates /\ At(chars, j - 1) \notin HighSurrogates

\* JSON.stringify of a surrogate that is no half of a pair
QuotedSurrogate(n) ==
    <<Backslash, "u", "d", HexLower[((n \div 256) % 16) + 1], HexLower[((n \div 16) % 16) + 1],
      HexLower[(n % 16) + 1]>>

\* JSON.stringify of character j of a string
QuotedAt(chars, j) ==
    IF LoneSurrogate(chars, j)
    THEN QuotedSurrogate(CHOOSE n \in 55296..57343 : CodeUnit(n) = chars[j])
    ELSE QuotedChar(chars[j])

QuotedWidth == 6

\* JSON.stringify of a string
Quoted(chars) ==
    <<Quote>>
        \o SelectSeq([j \in 1..(QuotedWidth * Len(chars)) |->
                         LET q == QuotedAt(chars, ((j - 1) \div QuotedWidth) + 1)
                             i == ((j - 1) % QuotedWidth) + 1
                         IN  IF i <= Len(q) THEN q[i] ELSE Skip],
                     NotSkip)
        \o <<Quote>>

\* The string literal that starts at i and ends at e: one without backslash
\* is its own characters
StringUpTo(s, i, e) ==
    IF e = 0 THEN Fail
    ELSE IF \A k \in (i + 1)..(e - 1) : s[k] # Backslash
    THEN IF \A k \in (i + 1)..(e - 1) : s[k] \notin ControlChars
         THEN Ending(Value("string", <<>>, SubSeq(s, i + 1, e - 1)), e + 1)
         ELSE Fail
    ELSE IF \A k \in (i + 1)..(e - 1) : CharAllowed(s, k, e)
    THEN Ending(Value("string", <<>>,
                      SelectSeq([k \in 1..(e - i - 1) |-> CharDecoded(s, i + k)], NotSkip)),
                e + 1)
    ELSE Fail

\* The string literal that starts at i
ParseString(s, i) == StringUpTo(s, i, StringEnd(s, i))

\* JSON.stringify of a parsed value
JsonOf(v) == IF v.kind = "string" THEN Quoted(v.str) ELSE v.json

(* Arrays and objects *)

RECURSIVE JoinWith(_, _)
JoinWith(ss, sep) ==
    IF ss = <<>> THEN <<>>
    ELSE IF Len(ss) = 1 THEN Head(ss)
    ELSE Head(ss) \o sep \o JoinWith(Tail(ss), sep)

\* What String makes of a value that cannot be converted: it throws a
\* TypeError
Throws == <<"throws", "TypeError">>

\* Array.prototype.toString: null adds nothing
ElementText(v) == IF v.kind = "null" THEN <<>> ELSE v.str

\* Array.prototype.toString joins the texts of the elements, and throws when
\* the conversion of one of them throws
ArrayText(vs) ==
    IF \E i \in 1..Len(vs) : ElementText(vs[i]) = Throws THEN Throws
    ELSE JoinWith([i \in 1..Len(vs) |-> ElementText(vs[i])], <<",">>)

\* The array of the elements vs; its two texts are worked out only when they
\* are wanted, which they are for a value that ends up in role or message
ArrayValue(vs, wanted) ==
    IF ~wanted THEN Value("array", <<>>, <<>>)
    ELSE Value("array",
               <<"[">> \o JoinWith([i \in 1..Len(vs) |-> JsonOf(vs[i])], <<",">>)
                   \o <<"]">>,
               ArrayText(vs))

\* a < b for two runs of digits without leading zeros
DigitsLess(a, b) ==
    \/ Len(a) < Len(b)
    \/ /\ Len(a) = Len(b)
       /\ \E i \in 1..Len(a) :
            /\ DigitValue(a[i]) < DigitValue(b[i])
            /\ \A j \in 1..(i - 1) : a[j] = b[j]

\* A property name that is an array index, a canonical number below 2^32 - 1:
\* such names come first, in ascending order, when the properties of an
\* object are enumerated
IndexLimit == <<"4", "2", "9", "4", "9", "6", "7", "2", "9", "5">>
IsIndex(key) ==
    /\ key # <<>>
    /\ \A i \in 1..Len(key) : key[i] \in Digits
    /\ (Len(key) = 1 \/ key[1] # "0")
    /\ DigitsLess(key, IndexLimit)

\* The place where the name of member m is first given
FirstGiven(ms, m) == Min({j \in 1..Len(ms) : ms[j].key = ms[m].key})

\* Member a is enumerated before member b
EnumeratedBefore(ms, a, b) ==
    IF IsIndex(ms[a].key)
    THEN ~IsIndex(ms[b].key) \/ DigitsLess(ms[a].key, ms[b].key)
    ELSE ~IsIndex(ms[b].key) /\ FirstGiven(ms, a) < FirstGiven(ms, b)

\* The members live in the order of enumeration
Enumerated(ms, live) ==
    [k \in 1..Cardinality(live) |->
        CHOOSE m \in live : Cardinality({j \in live : EnumeratedBefore(ms, j, m)}) = k - 1]

\* The members of an object in the order of enumeration: a name that is
\* given twice keeps its first place and its last value
MemberOrder(ms) ==
    Enumerated(ms, {m \in 1..Len(ms) : \A j \in (m + 1)..Len(ms) : ms[j].key # ms[m].key})

ObjectText == <<"[", "o", "b", "j", "e", "c", "t", " ", "O", "b", "j", "e", "c", "t", "]">>
ToStringKey == <<"t", "o", "S", "t", "r", "i", "n", "g">>
RoleKey == <<"r", "o", "l", "e">>
MessageKey == <<"m", "e", "s", "s", "a", "g", "e">>

\* The member of ms given last among those at, undefined when there is none
LastOf(ms, at) == IF at = {} THEN Undefined ELSE Repr(ms[Max(at)].val)

\* String of the object of the members ms: Object.prototype.toString, which
\* a member named toString hides.  No value of a JSON text can be called,
\* and Object.prototype.valueOf gives the object itself: the conversion
\* throws.
ObjectString(ms) ==
    IF \E m \in 1..Len(ms) : ms[m].key = ToStringKey THEN Throws ELSE ObjectText

\* response[key]
Member(ms, key) == LastOf(ms, {m \in 1..Len(ms) : ms[m].key = key})

\* What the += of index.ts:268 adds for the member given last among those at:
\* nothing when there is none and when it is null, and nothing when its
\* conversion throws, which the catch of index.ts:269 takes
TextOf(ms, at) ==
    IF at = {} THEN <<>>
    ELSE IF ms[Max(at)].val.kind = "null" \/ ms[Max(at)].val.str = Throws THEN <<>>
    ELSE ms[Max(at)].val.str

MemberText(ms, key) == TextOf(ms, {m \in 1..Len(ms) : ms[m].key = key})

\* JSON.stringify of the object of the members ms, enumerated in order
ObjectJson(ms, order) ==
    <<"{">> \o JoinWith([k \in 1..Len(order) |->
                            Quoted(ms[order[k]].key) \o <<":">> \o JsonOf(ms[order[k]].val)],
                        <<",">>)
        \o <<"}">>

\* The object of the members ms; its JSON text is worked out only when it is
\* wanted
ObjectValue(ms, wanted) ==
    [ok |-> TRUE, next |-> 0, kind |-> "object",
     json |-> IF wanted THEN ObjectJson(ms, MemberOrder(ms)) ELSE <<>>,
     str |-> ObjectString(ms),
     role |-> Member(ms, RoleKey), message |-> Member(ms, MessageKey),
     text |-> MemberText(ms, MessageKey)]

RECURSIVE ParseValue(_, _, _)
RECURSIVE ParseElements(_, _, _, _)
RECURSIVE ParseMembers(_, _, _, _)

\* After the elements vs of an array, at position j
ElementsNext(s, j, vs, wanted) ==
    IF At(s, j) = "," THEN ParseElements(s, SkipSpace(s, j + 1), vs, wanted)
    ELSE IF At(s, j) = "]" THEN Ending(ArrayValue(vs, wanted), j + 1)
    ELSE Fail

\* The element v after the elements vs of an array
ElementParsed(s, v, vs, wanted) ==
    IF v.ok THEN ElementsNext(s, SkipSpace(s, v.next), Append(vs, v), wanted) ELSE Fail

\* The elements of an array from position i on, vs being those before
ParseElements(s, i, vs, wanted) == ElementParsed(s, ParseValue(s, i, wanted), vs, wanted)

\* After the members ms of an object, at position j
MembersNext(s, j, ms, wanted) ==
    IF At(s, j) = "," THEN ParseMembers(s, SkipSpace(s, j + 1), ms, wanted)
    ELSE IF At(s, j) = "}" THEN Ending(ObjectValue(ms, wanted), j + 1)
    ELSE Fail

\* The value v of the member named key, after the members ms
MemberParsed(s, key, v, ms, wanted) ==
    IF v.ok
    THEN MembersNext(s, SkipSpace(s, v.next), Append(ms, [key |-> key, val |-> v]), wanted)
    ELSE Fail

\* The member named key, whose colon is expected at position c
MemberValue(s, key, c, ms, wanted) ==
    IF At(s, c) = ":"
    THEN MemberParsed(s, key,
                      ParseValue(s, SkipSpace(s, c + 1),
                                 wanted \/ key \in {RoleKey, MessageKey}),
                      ms, wanted)
    ELSE Fail

\* The member whose name is the string literal key
MemberNamed(s, key, ms, wanted) ==
    IF key.ok THEN MemberValue(s, key.str, SkipSpace(s, key.next), ms, wanted) ELSE Fail

\* The members of an object from position i on, ms being those before
ParseMembers(s, i, ms, wanted) ==
    IF At(s, i) = Quote THEN MemberNamed(s, ParseString(s, i), ms, wanted) ELSE Fail

\* The value that starts with the character c at position i, the next
\* character that is no white space being at j
ValueAt(s, i, c, j, wanted) ==
    IF c = Quote THEN ParseString(s, i)
    ELSE IF c = "{"
    THEN IF At(s, j) = "}" THEN Ending(ObjectValue(<<>>, wanted), j + 1)
         ELSE ParseMembers(s, j, <<>>, wanted)
    ELSE IF c = "["
    THEN IF At(s, j) = "]" THEN Ending(ArrayValue(<<>>, wanted), j + 1)
         ELSE ParseElements(s, j, <<>>, wanted)
    ELSE IF HasAt(s, i, NullText) THEN Ending(Value("null", NullText, NullText), i + 4)
    ELSE IF HasAt(s, i, TrueText) THEN Ending(Value("true", TrueText, TrueText), i + 4)
    ELSE IF HasAt(s, i, FalseText) THEN Ending(Value("false", FalseText, FalseText), i + 5)
    ELSE IF c \in Digits \cup {"-"} THEN ParseNumber(s, i)
    ELSE Fail

\* The value that starts at position i
ParseValue(s, i, wanted) == ValueAt(s, i, At(s, i), SkipSpace(s, i + 1), wanted)

\* The value v is all of the text s, or else the text is no JSON
Parsed(s, v) ==
    IF v.ok /\ SkipSpace(s, v.next) = Len(s) + 1
    THEN [kind |-> v.kind, role |-> v.role, message |-> v.message, text |-> v.text]
    ELSE [kind |-> "throws", role |-> Undefined, message |-> Undefined, text |-> <<>>]

\* JSON.parse(s): the kind of the value ("throws" when the text is no JSON),
\* and response["role"], response["message"] and the text that
\* the += of index.ts:268 adds, which are undefined and empty for every value
\* but an object
JSONParse(s) == Only({Parsed(t, ParseValue(t, SkipSpace(t, 1), FALSE)) : t \in {s}})

-----------------------------------------------------------------------------
(* The frames written with stream.writeSSE *)

\* index.ts:225-239, JSON.stringify drops the undefined fields of delta
ContentFrame(model, v) ==
    [data |-> "json", id |-> "chatcmpl-duckduck-ai", model |-> model,
     finish_reason |-> "null", role |-> v.role, content |-> v.message]

\* index.ts:203-215
StopFrame(model) ==
    [data |-> "json", id |-> "chat-", model |-> model,
     finish_reason |-> "stop", role |-> Undefined, content |-> Undefined]

\* index.ts:218
DoneFrame ==
    [data |-> "[DONE]", id |-> "", model |-> "",
     finish_reason |-> "", role |-> Undefined, content |-> Undefined]

\* The try block of one line: JSON.parse, then the reads of response["role"]
\* and response["message"], which throw on null; a throw writes nothing.
FramesOf(model, v) ==
    IF v.kind \in {"throws", "null"} THEN <<>> ELSE <<ContentFrame(model, v)>>

LineFrames(model, part) == FramesOf(model, JSONParse(part))

RECURSIVE NextWrite(_, _, _)

\* Part k of ps, which is not the sentinel, has given the frames fs
NextContent(model, ps, k, fs) ==
    IF fs # <<>>
    THEN [ran |-> SubSeq(ps, 1, k), at |-> "content", frames |-> fs,
          rest |-> SubSeq(ps, k + 1, Len(ps))]
    ELSE NextWrite(model, ps, k + 1)

\* The for loop of index.ts:199 from part k of ps on, up to its next await:
\* the parts it runs on (ran), the frame it hands to stream.writeSSE and which
\* write that is ("stop" for index.ts:217, "content" for index.ts:241, "none"
\* when the loop ends without a write), and the parts it has not run on yet
NextWrite(model, ps, k) ==
    IF k > Len(ps) THEN [ran |-> ps, at |-> "none", frames |-> <<>>, rest |-> <<>>]
    ELSE IF Substring6(ps[k]) = DoneText
    THEN [ran |-> SubSeq(ps, 1, k), at |-> "stop", frames |-> <<StopFrame(model)>>,
          rest |-> SubSeq(ps, k + 1, Len(ps))]
    ELSE NextContent(model, ps, k, LineFrames(model, Substring6(ps[k])))

RECURSIVE ProcessParts(_, _)

\* The loop has passed the content write w and made r of the parts after it
ProcessOn(w, r) ==
    [frames |-> w.frames \o r.frames, returned |-> r.returned, handed |-> w.ran \o r.handed]

\* The loop has come to the write w and runs to its end from there
ProcessFrom(model, w) ==
    IF w.at = "none" THEN [frames |-> <<>>, returned |-> FALSE, handed |-> w.ran]
    ELSE IF w.at = "stop"
    THEN [frames |-> <<StopFrame(model), DoneFrame>>, returned |-> TRUE, handed |-> w.ran]
    ELSE ProcessOn(w, ProcessParts(model, w.rest))

\* for (let part of parts) run to its end with every write passed on: the
\* frames written, whether the loop returned at the sentinel, and the parts
\* the loop body has run on.
ProcessParts(model, ps) == ProcessFrom(model, NextWrite(model, ps, 1))

\* SplitChunk with the last fragment dropped instead of kept in the buffer
SplitChunkDropsFragment(held, buf, value) ==
    LET dec == DecodeBytes(held, value)
        split == Split(buf \o dec.chars, <<NL>>)
    IN  [decoder |-> dec.lead, buffer |-> <<>>, parts |-> Front(split)]

\* SplitChunk with the buffer left as it is after the split, the complete
\* lines still in it
SplitChunkKeepsLines(held, buf, value) ==
    LET dec == DecodeBytes(held, value)
        split == Split(buf \o dec.chars, <<NL>>)
    IN  [decoder |-> dec.lead, buffer |-> buf \o dec.chars, parts |-> Front(split)]

\* index.ts:195-197: decode the chunk, append it to the buffer, split at the
\* newlines, keep the last fragment in the buffer.
SplitChunk(held, buf, value) ==
    LET dec == DecodeStream(held, value)
        split == Split(buf \o dec.chars, <<NL>>)
    IN  [decoder |-> dec.lead, buffer |-> Last(split), parts |-> Front(split)]

\* One iteration of the read loop on a chunk, every write passed on
ProcessChunk(model, held, buf, value) ==
    LET c == SplitChunk(held, buf, value)
        res == ProcessParts(model, c.parts)
    IN  [decoder |-> c.decoder, buffer |-> c.buffer,
         frames |-> res.frames, returned |-> res.returned, handed |-> res.handed]

-----------------------------------------------------------------------------
(* Non-streaming aggregation, index.ts:257-272 *)

\* What one part adds to responseContent: nothing when JSON.parse throws,
\* when the read of parseJson["message"] throws (on null), when the message
\* is undefined or null, and when its conversion to a string throws
MessageText(part) == JSONParse(part).text

\* AggregateParts that skips the sentinel instead of stopping at it
RECURSIVE AggregatePartsContinue(_)
AggregatePartsContinue(ps) ==
    IF ps = <<>> THEN <<>>
    ELSE LET part == Substring6(Head(ps))
         IN  IF part = DoneText THEN AggregatePartsContinue(Tail(ps))
             ELSE MessageText(part) \o AggregatePartsContinue(Tail(ps))

RECURSIVE AggregateParts(_)
AggregateParts(ps) ==
    IF ps = <<>> THEN <<>>
    ELSE LET part == Substring6(Head(ps))
         IN  IF part = DoneText THEN <<>>
             ELSE MessageText(part) \o AggregateParts(Tail(ps))

Aggregate(text) == AggregateParts(Split(text, <<NL, NL>>))

-----------------------------------------------------------------------------
(* Request translation, index.ts:134-140 *)

\* TranslateMessage that maps every role but "user" to "user"
TranslateMessageAllUser(message) ==
    [role |-> "user", content |-> message.content]

TranslateMessage(message) ==
    [role |-> IF message.role = "system" THEN "user" ELSE message.role,
     content |-> message.content]

Translate(params) ==
    [model |-> params.model,
     messages |-> [i \in 1..Len(params.messages) |-> TranslateMessage(params.messages[i])]]

-----------------------------------------------------------------------------
(* Inputs: requests, tokens and backend bodies *)

\* A header that is not there (undefined from c.req.header, null from
\* Headers.get), and a response with no body (resp.body === null)
Falsy(v) == v = Absent \/ v = <<>>
OrEmpty(v) == IF Falsy(v) THEN <<>> ELSE v

ApiKey == <<"k">>
BearerLen == 7
Bearer(key) == <<"B", "e", "a", "r", "e", "r", " ">> \o key
\* authorization.substring(7)
Substring7(authorization) == SubSeq(authorization, BearerLen + 1, Len(authorization))

Authorizations == {Absent, <<>>, Bearer(ApiKey), Bearer(<<"x">>), ApiKey}
CallerToken == <<"T", "c">>
ProbeToken == <<"T", "p">>
BackendToken == <<"T", "b">>

Roles == {"system", "user", "assistant"}
Contents == {"c1", "c2"}
Messages == [role : Roles, content : Contents]
MessageLists(n) == UNION {[1..k -> Messages] : k \in 0..n}
SampleMessages == <<[role |-> "system", content |-> "c1"], [role |-> "user", content |-> "c2"]>>

\* The lines a backend body is made of
\* data: {"message":"a"}
LineMsgA ==
    DataPrefix \o <<"{", "\"", "m", "e", "s", "s", "a", "g", "e", "\"", ":", "\"", "a", "\"", "}">>
\* data: {"role":"b","message":"\u00e9"} with U+00E9 as its two bytes C3 A9
LineRoleMsgE ==
    DataPrefix \o <<"{", "\"", "r", "o", "l", "e", "\"", ":", "\"", "b", "\"", ",",
                    "\"", "m", "e", "s", "s", "a", "g", "e", "\"", ":", "\"", "C3", "A9", "\"", "}">>
\* data: {"id":1, "message":5}
LineMsgNum ==
    DataPrefix \o <<"{", "\"", "i", "d", "\"", ":", "1", ",", " ",
                    "\"", "m", "e", "s", "s", "a", "g", "e", "\"", ":", "5", "}">>
\* data: {"message":{"toString":1}}
LineMsgToString ==
    DataPrefix \o <<"{", "\"", "m", "e", "s", "s", "a", "g", "e", "\"", ":",
                    "{", "\"", "t", "o", "S", "t", "r", "i", "n", "g", "\"", ":", "1", "}", "}">>
LineBad == DataPrefix \o <<"x">>
LineNum == DataPrefix \o <<"5">>
LineDone == DataPrefix \o DoneText
\* A line whose first six characters are not the prefix marker
LineEvent == <<"e", "v", "e", "n", "t", ":">> \o DoneText
\* The lines of the bodies of the line-prefix specification
PrefixedLines == {LineMsgA, LineDone, LineEvent}
\* The lines of the bodies of the bridge specification, and of the others
StreamLines == {LineRoleMsgE, LineBad, LineNum, LineDone}
Lines == StreamLines \cup {LineMsgA}
\* The lines of the bodies of the aggregation specification
AggregatedLines == Lines \cup {LineMsgNum, LineMsgToString}

RECURSIVE Join(_, _, _)
Join(ls, sep, fin) ==
    IF ls = <<>> THEN <<>>
    ELSE IF Len(ls) = 1 THEN Head(ls) \o fin
    ELSE Head(ls) \o sep \o Join(Tail(ls), sep, fin)

\* How the lines of a body are separated and how the last one ends: lines
\* ended by a newline or by a blank line, the last one ended alike, ended by a
\* single newline, or not ended at all.
Framings ==
    {[sep |-> <<NL>>, fin |-> <<>>], [sep |-> <<NL>>, fin |-> <<NL>>],
     [sep |-> <<NL, NL>>, fin |-> <<>>], [sep |-> <<NL, NL>>, fin |-> <<NL>>],
     [sep |-> <<NL, NL>>, fin |-> <<NL, NL>>]}

\* Bodies of at most n lines out of lines
Bodies(lines, n) ==
    {Join(ls, f.sep, f.fin) :
        ls \in UNION {[1..k -> lines] : k \in 0..n}, f \in Framings}

-----------------------------------------------------------------------------
(* Responses *)

NoResponse ==
    [status |-> 0, kind |-> "none", error |-> "", message |-> "", content |-> <<>>]
ErrorResponse(status, error, message) ==
    [status |-> status, kind |-> "error", error |-> error, message |-> message,
     content |-> <<>>]
\* c.json(response), index.ts:274-301
CompletionResponse(content) ==
    [status |-> 200, kind |-> "completion", error |-> "", message |-> "",
     content |-> content]
\* streamSSE(c, ...), index.ts:178
EventStreamResponse ==
    [status |-> 200, kind |-> "sse", error |-> "", message |-> "", content |-> <<>>]

NoParams == [model |-> "", messages |-> <<>>]

-----------------------------------------------------------------------------
(* The handler, one action per resumption: the handler runs from one await *)
(* to the next *)

\* AuthError that lets a request without Authorization header through
AuthErrorIgnoresMissing(r) ==
    IF r.apikey = <<>> \/ Falsy(r.authorization) THEN ""
    ELSE IF r.apikey # Substring7(r.authorization) THEN "apikey error"
    ELSE ""

\* API key validation, index.ts:112-125
AuthError(r) ==
    IF r.apikey = <<>> THEN ""
    ELSE IF Falsy(r.authorization) THEN "authorization error"
    ELSE IF r.apikey # Substring7(r.authorization) THEN "apikey error"
    ELSE ""

\* fetch(chatURL, ...), index.ts:158-162
ChatCall(token, params) == [token |-> token, body |-> params]

\* Entry of the handler up to its first await, index.ts:110-127: the API key
\* validation, then the read of the request body
Handle ==
    /\ pc = "start"
    /\ IF AuthError(req) # ""
       THEN /\ response' = ErrorResponse(401, AuthError(req), "")
            /\ pc' = "done"
       ELSE /\ pc' = "json"
            /\ UNCHANGED response
    /\ UNCHANGED <<req, x4, probes, probed, chats, chatted, requestParams, echo, body, pos,
                   reader, releases, decoder, buffer, parts, writing, handed, out, exit,
                   caller, backend, parked>>

\* JsonReturns that fetches a token of its own whatever the caller supplies
JsonReturnsAlwaysProbes ==
    /\ pc = "json"
    /\ requestParams' = Translate(req.params)
    /\ x4' = req.x4hdr
    /\ probes' = probes + 1
    /\ pc' = "probe"
    /\ UNCHANGED <<req, probed, chats, chatted, response, echo, body, pos, reader, releases,
                   decoder, buffer, parts, writing, handed, out, exit, caller, backend,
                   parked>>

\* c.req.json() resumes, index.ts:127-158: it resolves with the body the
\* validator of index.ts:103 has parsed before the handler was entered; the
\* handler runs up to its first backend call
JsonReturns ==
    /\ pc = "json"
    /\ requestParams' = Translate(req.params)
    /\ x4' = req.x4hdr
    /\ IF Falsy(req.x4hdr)
       THEN /\ probes' = probes + 1
            /\ pc' = "probe"
            /\ UNCHANGED chats
       ELSE /\ chats' = Append(chats, ChatCall(req.x4hdr, Translate(req.params)))
            /\ pc' = "chat"
            /\ UNCHANGED probes
    /\ UNCHANGED <<req, probed, chatted, response, echo, body, pos, reader, releases,
                   decoder, buffer, parts, writing, handed, out, exit, caller, backend,
                   parked>>

\* What fetch(statusURL) can do: reject, or resolve with or without the header
ProbeOutcomes ==
    {[ok |-> FALSE, token |-> Absent]}
        \cup {[ok |-> TRUE, token |-> t] : t \in {Absent, <<>>, ProbeToken}}

\* ProbeReturns without the check of index.ts:147-150
ProbeReturnsNoCheck ==
    /\ pc = "probe"
    /\ \E r \in ProbeOutcomes :
      /\ probed' = Append(probed, r)
      /\ IF ~r.ok
         THEN /\ response' = ErrorResponse(400, "exception", "")
              /\ pc' = "done"
              /\ UNCHANGED <<x4, chats>>
         ELSE /\ x4' = OrEmpty(r.token)
              /\ chats' = Append(chats, ChatCall(OrEmpty(r.token), requestParams))
              /\ pc' = "chat"
              /\ UNCHANGED response
    /\ UNCHANGED <<req, probes, chatted, requestParams, echo, body, pos, reader, releases,
                   decoder, buffer, parts, writing, handed, out, exit, caller, backend,
                   parked>>

\* ProbeReturns that issues the probe again when it has failed
ProbeReturnsRetries ==
    /\ pc = "probe"
    /\ \E r \in ProbeOutcomes :
      /\ probed' = Append(probed, r)
      /\ IF ~r.ok
         THEN /\ probes' = probes + 1
              /\ UNCHANGED <<pc, x4, chats, response>>
         ELSE /\ x4' = OrEmpty(r.token)
              /\ IF Falsy(r.token)
                 THEN /\ response' = ErrorResponse(400, "x-xqd-4 get error", "")
                      /\ pc' = "done"
                      /\ UNCHANGED <<chats, probes>>
                 ELSE /\ chats' = Append(chats, ChatCall(r.token, requestParams))
                      /\ pc' = "chat"
                      /\ UNCHANGED <<response, probes>>
    /\ UNCHANGED <<req, chatted, requestParams, echo, body, pos, reader, releases,
                   decoder, buffer, parts, writing, handed, out, exit, caller, backend,
                   parked>>

\* getXcqd4 resumes, index.ts:67-81 and 145-158
ProbeReturns ==
    /\ pc = "probe"
    /\ \E r \in ProbeOutcomes :
      /\ probed' = Append(probed, r)
      /\ IF ~r.ok
         THEN /\ response' = ErrorResponse(400, "exception", "")
              /\ pc' = "done"
              /\ UNCHANGED <<x4, chats>>
         ELSE /\ x4' = OrEmpty(r.token)
              /\ IF Falsy(r.token)
                 THEN /\ response' = ErrorResponse(400, "x-xqd-4 get error", "")
                      /\ pc' = "done"
                      /\ UNCHANGED chats
                 ELSE /\ chats' = Append(chats, ChatCall(r.token, requestParams))
                      /\ pc' = "chat"
                      /\ UNCHANGED response
    /\ UNCHANGED <<req, probes, chatted, requestParams, echo, body, pos, reader, releases,
                   decoder, buffer, parts, writing, handed, out, exit, caller, backend,
                   parked>>

\* What fetch(chatURL) can do: reject; resolve with a non-success status and
\* an error text that resp.text() will give ("notok") or a body whose read
\* will fail ("notok-unreadable"); resolve with a success status, with or
\* without the x-vqd-4 header, with or without a body.
ErrorTexts == {"", "backend error"}

ChatOutcomes ==
    {[kind |-> k, text |-> "", hdr |-> Absent, body |-> Absent] :
        k \in {"throws", "notok-unreadable"}}
        \cup {[kind |-> "notok", text |-> t, hdr |-> Absent, body |-> Absent] :
                t \in ErrorTexts}
        \cup {[kind |-> "ok", text |-> "", hdr |-> h, body |-> b] :
                h \in {Absent, BackendToken}, b \in {Absent} \cup Bodies(Lines, HandlerLines)}

\* A few short replies: a non-success status, two bodies of one line that
\* parses and the sentinel line, and a body without sentinel line
ShortBodies ==
    {Join(<<LineMsgA, LineDone>>, <<NL>>, <<NL>>), Join(<<LineNum, LineDone>>, <<NL>>, <<NL>>),
     Join(<<LineNum>>, <<NL>>, <<NL>>)}

ShortOutcomes ==
    {[kind |-> "notok", text |-> "backend error", hdr |-> Absent, body |-> Absent]}
        \cup {[kind |-> "ok", text |-> "", hdr |-> BackendToken, body |-> b] :
                b \in ShortBodies}

Replies(which) == IF which = "short" THEN ShortOutcomes ELSE ChatOutcomes

\* The status, the error text and the x-vqd-4 header of a reply
Reply(r) == [kind |-> r.kind, text |-> r.text, hdr |-> r.hdr]

Truthy(stream) == stream = "true"

\* resp.headers.get("x-vqd-4") left as it is, null when the header is absent
EchoHeaderNoDefault(r) == r.hdr

\* resp.headers.get("x-vqd-4") || "", index.ts:174
EchoHeader(r) == OrEmpty(r.hdr)

\* ChatReturns without the check of resp.ok of index.ts:164-172
ChatReturnsIgnoresStatus ==
    /\ pc = "chat"
    /\ \E r \in Replies(backend) :
        /\ chatted' = Append(chatted, Reply(r))
        /\ IF r.kind = "throws"
           THEN /\ response' = ErrorResponse(400, "exception", "")
                /\ pc' = "done"
                /\ UNCHANGED <<echo, body, reader, exit>>
           ELSE /\ echo' = EchoHeader(r)
                /\ body' = r.body
                /\ IF Truthy(req.params.stream)
                   THEN /\ response' = EventStreamResponse
                        /\ IF r.body = Absent
                           THEN pc' = "done" /\ exit' = "nobody" /\ UNCHANGED reader
                           ELSE pc' = "read" /\ reader' = "held" /\ UNCHANGED exit
                   ELSE /\ IF r.body = Absent
                           THEN pc' = "done" /\ response' = NoResponse
                           ELSE pc' = "text" /\ UNCHANGED response
                        /\ UNCHANGED <<reader, exit>>
    /\ UNCHANGED <<req, x4, probes, probed, chats, requestParams, pos, releases, decoder,
                   buffer, parts, writing, handed, out, caller, backend, parked>>

\* fetch(chatURL) resumes, index.ts:158-184 and 255-257: the handler runs up
\* to its next await, the resp.text() of index.ts:165 for a non-success status
ChatReturns ==
    /\ pc = "chat"
    /\ \E r \in Replies(backend) :
        /\ chatted' = Append(chatted, Reply(r))
        /\ IF r.kind = "throws"
           THEN /\ response' = ErrorResponse(400, "exception", "")
                /\ pc' = "done"
                /\ UNCHANGED <<echo, body, reader, exit>>
           ELSE IF r.kind \in {"notok", "notok-unreadable"}
           THEN /\ pc' = "errortext"
                /\ UNCHANGED <<response, echo, body, reader, exit>>
           ELSE /\ echo' = EchoHeader(r)
                /\ body' = r.body
                /\ IF Truthy(req.params.stream)
                   THEN /\ response' = EventStreamResponse
                        /\ IF r.body = Absent
                           THEN pc' = "done" /\ exit' = "nobody" /\ UNCHANGED reader
                           ELSE pc' = "read" /\ reader' = "held" /\ UNCHANGED exit
                   ELSE /\ IF r.body = Absent
                           THEN pc' = "done" /\ response' = NoResponse
                           ELSE pc' = "text" /\ UNCHANGED response
                        /\ UNCHANGED <<reader, exit>>
    /\ UNCHANGED <<req, x4, probes, probed, chats, requestParams, pos, releases, decoder,
                   buffer, parts, writing, handed, out, caller, backend, parked>>

\* resp.text() resumes for a reply with a non-success status, index.ts:165-172:
\* with the error text, which the 400 carries, or with a rejection, which the
\* catch of index.ts:303 answers
ErrorTextReturns ==
    /\ pc = "errortext"
    /\ response' = IF chatted[Len(chatted)].kind = "notok"
                   THEN ErrorResponse(400, "api request error", chatted[Len(chatted)].text)
                   ELSE ErrorResponse(400, "exception", "")
    /\ pc' = "done"
    /\ UNCHANGED <<req, x4, probes, probed, chats, chatted, requestParams, echo, body, pos,
                   reader, releases, decoder, buffer, parts, writing, handed, out, exit,
                   caller, backend, parked>>

\* The sizes of the next chunk when left bytes of the body are still to come:
\* at most MaxChunk bytes, or all that is left
ChunkSizes(left) == {n \in 1..left : n <= MaxChunk \/ n = left}

\* The for loop of index.ts:199 has come to the write w, or to its end: the
\* callback awaits that stream.writeSSE call, or else the next reader.read()
Await(w) ==
    /\ handed' = handed \o w.ran
    /\ parts' = w.rest
    /\ IF w.at = "none"
       THEN pc' = "read" /\ writing' = <<>>
       ELSE /\ pc' = "write"
            /\ writing' = <<[frame |-> w.frames[1], at |-> w.at, to |-> caller]>>

\* The for loop of index.ts:199 goes on with the parts ps up to its next await
RunLoop(ps) == Await(NextWrite(req.params.model, ps, 1))

\* reader.read() resolves with a chunk, index.ts:190-241: the callback runs
\* up to its next await
ReadChunk ==
    /\ pc = "read"
    /\ pos < Len(body)
    /\ \E n \in ChunkSizes(Len(body) - pos) :
        LET c == SplitChunk(decoder, buffer, SubSeq(body, pos + 1, pos + n))
        IN  /\ pos' = pos + n
            /\ decoder' = c.decoder
            /\ buffer' = c.buffer
            /\ RunLoop(c.parts)
    /\ UNCHANGED <<req, x4, probes, probed, chats, chatted, requestParams, response, echo,
                   body, reader, releases, out, exit, caller, backend, parked>>

\* What becomes of a stream.writeSSE call made while the caller was to: the
\* frame is passed on to a caller that was connected; for one that was gone
\* the frame is dropped without a word or the call rejects.
WriteOutcomes(to) ==
    IF to = "connected" THEN {"delivered"} ELSE {"dropped", "rejected"}

\* WriteReturns without the return of index.ts:220: the loop goes on after
\* the end marker
WriteReturnsNoReturn ==
    /\ pc = "write"
    /\ \E o \in WriteOutcomes(writing[1].to) :
        /\ out' = IF o = "delivered" THEN Append(out, writing[1].frame) ELSE out
        /\ IF o = "rejected" /\ writing[1].at # "content"
           THEN /\ pc' = "done"
                /\ exit' = "writefail"
                /\ reader' = "released"
                /\ releases' = releases + 1
                /\ writing' = <<>>
                /\ UNCHANGED <<parts, handed>>
           ELSE IF writing[1].at = "stop"
           THEN /\ writing' = <<[frame |-> DoneFrame, at |-> "done", to |-> caller]>>
                /\ UNCHANGED <<pc, parts, handed, exit, reader, releases>>
           ELSE /\ RunLoop(parts)
                /\ UNCHANGED <<exit, reader, releases>>
    /\ UNCHANGED <<req, x4, probes, probed, chats, chatted, requestParams, response, echo,
                   body, pos, decoder, buffer, caller, backend, parked>>

\* WriteReturns without the finally of index.ts:249-251: the reader is
\* released where the callback returns, and not where a write throws
WriteReturnsNoFinally ==
    /\ pc = "write"
    /\ \E o \in WriteOutcomes(writing[1].to) :
        /\ out' = IF o = "delivered" THEN Append(out, writing[1].frame) ELSE out
        /\ IF o = "rejected" /\ writing[1].at # "content"
           THEN /\ pc' = "done"
                /\ exit' = "writefail"
                /\ writing' = <<>>
                /\ UNCHANGED <<parts, handed, reader, releases>>
           ELSE IF writing[1].at = "stop"
           THEN /\ writing' = <<[frame |-> DoneFrame, at |-> "done", to |-> caller]>>
                /\ UNCHANGED <<pc, parts, handed, exit, reader, releases>>
           ELSE IF writing[1].at = "done"
           THEN /\ pc' = "done"
                /\ exit' = "sentinel"
                /\ reader' = "released"
                /\ releases' = releases + 1
                /\ writing' = <<>>
                /\ UNCHANGED <<parts, handed>>
           ELSE /\ RunLoop(parts)
                /\ UNCHANGED <<exit, reader, releases>>
    /\ UNCHANGED <<req, x4, probes, probed, chats, chatted, requestParams, response, echo,
                   body, pos, decoder, buffer, caller, backend, parked>>

\* An awaited stream.writeSSE call completes (index.ts:217, 218 and 241) and
\* the callback runs up to its next await.  A rejected write of a content
\* frame is caught at index.ts:242 and the loop goes on; a rejected write of
\* the stop frame or of the end marker throws into the catch of index.ts:247.
\* After the stop frame comes the end marker, after the end marker the return
\* of index.ts:220; the reader is released in the finally of index.ts:249-251.
WriteReturns ==
    /\ pc = "write"
    /\ \E o \in WriteOutcomes(writing[1].to) :
        /\ out' = IF o = "delivered" THEN Append(out, writing[1].frame) ELSE out
        /\ IF o = "rejected" /\ writing[1].at # "content"
           THEN /\ pc' = "done"
                /\ exit' = "writefail"
                /\ reader' = "released"
                /\ releases' = releases + 1
                /\ writing' = <<>>
                /\ UNCHANGED <<parts, handed>>
           ELSE IF writing[1].at = "stop"
           THEN /\ writing' = <<[frame |-> DoneFrame, at |-> "done", to |-> caller]>>
                /\ UNCHANGED <<pc, parts, handed, exit, reader, releases>>
           ELSE IF writing[1].at = "done"
           THEN /\ pc' = "done"
                /\ exit' = "sentinel"
                /\ reader' = "released"
                /\ releases' = releases + 1
                /\ writing' = <<>>
                /\ UNCHANGED <<parts, handed>>
           ELSE /\ RunLoop(parts)
                /\ UNCHANGED <<exit, reader, releases>>
    /\ UNCHANGED <<req, x4, probes, probed, chats, chatted, requestParams, response, echo,
                   body, pos, decoder, buffer, caller, backend, parked>>

\* The caller disconnects while the event stream is open: while the callback
\* awaits a read or a write
Disconnect ==
    /\ pc \in {"read", "write"}
    /\ caller = "connected"
    /\ caller' = "gone"
    /\ UNCHANGED <<req, pc, x4, probes, probed, chats, chatted, requestParams, response,
                   echo, body, pos, reader, releases, decoder, buffer, parts, writing,
                   handed, out, exit, backend, parked>>

\* ReadDone that writes the terminal pair when the stream closes
ReadDoneWritesPair ==
    /\ pc = "read"
    /\ pos = Len(body)
    /\ pc' = "done"
    /\ exit' = "closed"
    /\ reader' = "released"
    /\ releases' = releases + 1
    /\ out' = out \o <<StopFrame(req.params.model), DoneFrame>>
    /\ UNCHANGED <<req, x4, probes, probed, chats, chatted, requestParams, response, echo,
                   body, pos, decoder, buffer, parts, writing, handed, caller, backend,
                   parked>>

\* reader.read() resolves with done, index.ts:191-193 and 249-251
ReadDone ==
    /\ pc = "read"
    /\ pos = Len(body)
    /\ pc' = "done"
    /\ exit' = "closed"
    /\ reader' = "released"
    /\ releases' = releases + 1
    /\ UNCHANGED <<req, x4, probes, probed, chats, chatted, requestParams, response, echo,
                   body, pos, decoder, buffer, parts, writing, handed, out, caller, backend,
                   parked>>

\* ReadError that tells the caller of the failure with a stop frame and the
\* end marker
ReadErrorWritesPair ==
    /\ pc = "read"
    /\ pc' = "done"
    /\ exit' = "error"
    /\ reader' = "released"
    /\ releases' = releases + 1
    /\ out' = out \o <<StopFrame(req.params.model), DoneFrame>>
    /\ UNCHANGED <<req, x4, probes, probed, chats, chatted, requestParams, response, echo,
                   body, pos, decoder, buffer, parts, writing, handed, caller, backend,
                   parked>>

\* reader.read() rejects, index.ts:247-251
ReadError ==
    /\ pc = "read"
    /\ pc' = "done"
    /\ exit' = "error"
    /\ reader' = "released"
    /\ releases' = releases + 1
    /\ UNCHANGED <<req, x4, probes, probed, chats, chatted, requestParams, response, echo,
                   body, pos, decoder, buffer, parts, writing, handed, out, caller, backend,
                   parked>>

\* resp.text() resumes on the non-streaming path, index.ts:257-306
TextReturns ==
    /\ pc = "text"
    /\ \E ok \in BOOLEAN :
        response' = IF ok THEN CompletionResponse(Aggregate(DecodeAll(body)))
                    ELSE ErrorResponse(400, "exception", "")
    /\ pc' = "done"
    /\ UNCHANGED <<req, x4, probes, probed, chats, chatted, requestParams, echo, body, pos,
                   reader, releases, decoder, buffer, parts, writing, handed, out, exit,
                   caller, backend, parked>>

-----------------------------------------------------------------------------
(* Specifications *)

Models == {"gpt-4o-mini"}
TranslateModels == {"gpt-4o-mini", "claude-3-haiku-20240307"}
Streams == {"true", "false", "undefined"}

Params(models, ms, streams) == [model : models, messages : ms, stream : streams]

Requests ==
    [apikey : {<<>>, ApiKey}, authorization : Authorizations,
     x4hdr : {Absent, <<>>, CallerToken}, params : Params(Models, {SampleMessages}, Streams)]

Fresh ==
    /\ pc = "start"
    /\ x4 = Absent
    /\ probes = 0
    /\ probed = <<>>
    /\ chats = <<>>
    /\ chatted = <<>>
    /\ requestParams = NoParams
    /\ response = NoResponse
    /\ echo = Absent
    /\ body = Absent
    /\ pos = 0
    /\ reader = "none"
    /\ releases = 0
    /\ decoder = <<>>
    /\ buffer = <<>>
    /\ parts = <<>>
    /\ writing = <<>>
    /\ handed = <<>>
    /\ out = <<>>
    /\ exit = "running"
    /\ caller = "connected"

\* The whole handler, one request at a time
Init == req \in Requests /\ Fresh /\ backend = "any" /\ parked = <<>>

Next == Handle \/ JsonReturns \/ ProbeReturns \/ ChatReturns \/ ErrorTextReturns
            \/ ReadChunk \/ WriteReturns \/ ReadDone \/ ReadError \/ TextReturns

Spec == Init /\ [][Next]_vars

\* A request accepted with the caller's token, whose chat call has returned
\* a success status with the body b
Accepted(stream, b) ==
    /\ req = [apikey |-> <<>>, authorization |-> Absent, x4hdr |-> CallerToken,
              params |-> [model |-> "gpt-4o-mini", messages |-> SampleMessages,
                          stream |-> stream]]
    /\ x4 = CallerToken
    /\ probes = 0
    /\ probed = <<>>
    /\ requestParams = Translate(req.params)
    /\ chats = <<ChatCall(CallerToken, requestParams)>>
    /\ backend = "any"
    /\ chatted = <<[kind |-> "ok", text |-> "", hdr |-> BackendToken]>>
    /\ echo = BackendToken
    /\ body = b
    /\ pos = 0
    /\ releases = 0
    /\ decoder = <<>>
    /\ buffer = <<>>
    /\ parts = <<>>
    /\ writing = <<>>
    /\ handed = <<>>
    /\ out = <<>>
    /\ exit = "running"
    /\ caller = "connected"
    /\ parked = <<>>

\* The SSE bridge on every body of at most MaxLines lines, under every chunking
InitStream ==
    /\ \E b \in Bodies(StreamLines, MaxLines) : Accepted("true", b)
    /\ pc = "read"
    /\ reader = "held"
    /\ response = EventStreamResponse

NextStream == ReadChunk \/ WriteReturns \/ ReadDone \/ ReadError

SpecStream == InitStream /\ [][NextStream]_vars

\* The locals of the handler and of the streamSSE callback of one request,
\* with where it is suspended and what it has got and given so far
Locals ==
    [req |-> req, pc |-> pc, x4 |-> x4, probes |-> probes, probed |-> probed,
     chats |-> chats, chatted |-> chatted, requestParams |-> requestParams,
     response |-> response, echo |-> echo, body |-> body, pos |-> pos,
     reader |-> reader, releases |-> releases, decoder |-> decoder, buffer |-> buffer,
     parts |-> parts, writing |-> writing, handed |-> handed, out |-> out, exit |-> exit,
     caller |-> caller]

\* The locals of a request whose handler has not run yet
FreshLocals(r) ==
    [req |-> r, pc |-> "start", x4 |-> Absent, probes |-> 0, probed |-> <<>>,
     chats |-> <<>>, chatted |-> <<>>, requestParams |-> NoParams,
     response |-> NoResponse, echo |-> Absent, body |-> Absent, pos |-> 0,
     reader |-> "none", releases |-> 0, decoder |-> <<>>, buffer |-> <<>>,
     parts |-> <<>>, writing |-> <<>>, handed |-> <<>>, out |-> <<>>, exit |-> "running",
     caller |-> "connected"]

\* Restore with let buffer of index.ts:186 declared at module level, one
\* buffer for all the requests
RestoreSharedBuffer(l) ==
    /\ req' = l.req
    /\ pc' = l.pc
    /\ x4' = l.x4
    /\ probes' = l.probes
    /\ probed' = l.probed
    /\ chats' = l.chats
    /\ chatted' = l.chatted
    /\ requestParams' = l.requestParams
    /\ response' = l.response
    /\ echo' = l.echo
    /\ body' = l.body
    /\ pos' = l.pos
    /\ reader' = l.reader
    /\ releases' = l.releases
    /\ decoder' = l.decoder
    /\ buffer' = buffer
    /\ parts' = l.parts
    /\ writing' = l.writing
    /\ handed' = l.handed
    /\ out' = l.out
    /\ exit' = l.exit
    /\ caller' = l.caller

\* The request with the locals l is the one that runs
Restore(l) ==
    /\ req' = l.req
    /\ pc' = l.pc
    /\ x4' = l.x4
    /\ probes' = l.probes
    /\ probed' = l.probed
    /\ chats' = l.chats
    /\ chatted' = l.chatted
    /\ requestParams' = l.requestParams
    /\ response' = l.response
    /\ echo' = l.echo
    /\ body' = l.body
    /\ pos' = l.pos
    /\ reader' = l.reader
    /\ releases' = l.releases
    /\ decoder' = l.decoder
    /\ buffer' = l.buffer
    /\ parts' = l.parts
    /\ writing' = l.writing
    /\ handed' = l.handed
    /\ out' = l.out
    /\ exit' = l.exit
    /\ caller' = l.caller

\* The event loop resumes another request at the await where it is suspended;
\* the one that ran stays suspended at its own await.
Resume ==
    \E i \in DOMAIN parked :
        /\ parked[i].pc # "done"
        /\ parked' = [parked EXCEPT ![i] = Locals]
        /\ Restore(parked[i])
        /\ UNCHANGED backend

PairRequest(model, x4hdr, stream) ==
    [apikey |-> <<>>, authorization |-> Absent, x4hdr |-> x4hdr,
     params |-> [model |-> model, messages |-> SampleMessages, stream |-> stream]]

\* Two requests in flight for two models, one with the caller's token and one
\* without, each streaming or not, interleaved at every await: those of the
\* request body, of the two fetches, of the error text and of the response
\* text, of the reads and of the frame writes
InitPair ==
    /\ \E s1, s2 \in {"true", "false"} :
        /\ req = PairRequest("gpt-4o-mini", CallerToken, s1)
        /\ parked = <<FreshLocals(PairRequest("claude-3-haiku-20240307", Absent, s2))>>
    /\ Fresh
    /\ backend = "short"

NextPair == Handle \/ JsonReturns \/ ProbeReturns \/ ChatReturns \/ ErrorTextReturns
                \/ ReadChunk \/ WriteReturns \/ ReadDone \/ ReadError \/ TextReturns
                \/ Resume

SpecPair == InitPair /\ [][NextPair]_vars

\* Both paths, streaming and not, on bodies with lines that start with the
\* prefix marker and lines that do not
InitPrefix ==
    /\ \E b \in Bodies(PrefixedLines, PrefixLines), stream \in {"true", "false"} :
        Accepted(stream, b)
    /\ pc = (IF Truthy(req.params.stream) THEN "read" ELSE "text")
    /\ reader = (IF Truthy(req.params.stream) THEN "held" ELSE "none")
    /\ response = (IF Truthy(req.params.stream) THEN EventStreamResponse ELSE NoResponse)

NextPrefix == ReadChunk \/ WriteReturns \/ ReadDone \/ ReadError \/ TextReturns

SpecPrefix == InitPrefix /\ [][NextPrefix]_vars

\* The SSE bridge with a caller that may disconnect at any await, between two
\* frame writes of one chunk included
InitCancel ==
    /\ \E b \in Bodies(Lines, HandlerLines) : Accepted("true", b)
    /\ pc = "read"
    /\ reader = "held"
    /\ response = EventStreamResponse

NextCancel == ReadChunk \/ WriteReturns \/ Disconnect \/ ReadDone \/ ReadError

SpecCancel == InitCancel /\ [][NextCancel]_vars

\* The non-streaming aggregation on every body of at most AggregateLines lines
InitAggregate ==
    /\ \E b \in Bodies(AggregatedLines, AggregateLines) : Accepted("false", b)
    /\ pc = "text"
    /\ reader = "none"
    /\ response = NoResponse

NextAggregate == TextReturns

SpecAggregate == InitAggregate /\ [][NextAggregate]_vars

\* Request translation on every message list of at most MaxMsgs messages
InitTranslate ==
    /\ req \in [apikey : {<<>>}, authorization : {Absent}, x4hdr : {CallerToken},
                params : Params(TranslateModels, MessageLists(MaxMsgs), {"false"})]
    /\ Fresh
    /\ backend = "any"
    /\ parked = <<>>

NextTranslate == Handle \/ JsonReturns

SpecTranslate == InitTranslate /\ [][NextTranslate]_vars

-----------------------------------------------------------------------------
(* What the bridge has received, seen as a whole *)

\* The text decoded from the bytes read so far
Received == DecodeBytes(<<>>, SubSeq(body, 1, pos)).chars

\* The complete lines of a text: all that a newline ends
CompleteLines(text) == Front(Split(text, <<NL>>))

IsSentinelLine(line) == Substring6(line) = DoneText

HasSentinel(lines) == \E i \in DOMAIN lines : IsSentinelLine(lines[i])

\* A complete sentinel line has been read
SentinelReceived == body # Absent /\ HasSentinel(CompleteLines(Received))

IsContentFrame(f) == f.data = "json" /\ f.finish_reason = "null"

IsPrefix(s, t) == Len(s) <= Len(t) /\ s = SubSeq(t, 1, Len(s))

\* The callback awaits the completion of a frame write: the loop is in the
\* middle of the lines of a chunk
Writing == pc = "write"

-----------------------------------------------------------------------------
(* Claims *)

\* C1: in the streaming path, once a complete sentinel line has been read no
\* further read is issued; while the frames of its chunk are being written
\* the frames written are content frames, at most followed by the stop frame
\* when the end marker is the one being written; and once the callback has
\* ended the frames written are content frames, then exactly one frame with
\* finish_reason "stop" and an empty delta, then exactly one literal "[DONE]"
\* frame.  Frames are only ever appended and the bytes read only grow, so
\* this holding in every later state says that no frame is written
\* afterwards, whatever lines the chunk still held and whatever bytes the
\* backend still has.
C1_SentinelEndsStream ==
    SentinelReceived =>
        /\ pc \in {"write", "done"}
        /\ Writing =>
            \A i \in 1..Len(out) :
                \/ IsContentFrame(out[i])
                \/ /\ i = Len(out)
                   /\ out[i] = StopFrame(req.params.model)
                   /\ writing[1].frame = DoneFrame
        /\ pc = "done" =>
            /\ exit = "sentinel"
            /\ Len(out) >= 2
            /\ out[Len(out) - 1] = StopFrame(req.params.model)
            /\ out[Len(out) - 1].finish_reason = "stop"
            /\ out[Len(out) - 1].role = Undefined
            /\ out[Len(out) - 1].content = Undefined
            /\ out[Len(out)] = DoneFrame
            /\ \A i \in 1..(Len(out) - 2) : IsContentFrame(out[i])

\* C1 witness: the sentinel line was followed, in the bytes already read, by a
\* complete line that parses, and the backend still has bytes to yield.
C1_Witness ==
    /\ exit = "sentinel"
    /\ pos < Len(body)
    /\ Len(out) > 2
    /\ \E i, j \in DOMAIN CompleteLines(Received) :
        /\ i < j
        /\ IsSentinelLine(CompleteLines(Received)[i])
        /\ LineFrames(req.params.model, Substring6(CompleteLines(Received)[j])) # <<>>

\* The frames written when bytes arrive as one chunk
OneChunk(bytes) == ProcessChunk(req.params.model, <<>>, <<>>, bytes).frames

\* The stream was read to its close or to the sentinel: no read failed
StreamEnded == body # Absent /\ pc = "done" /\ exit \in {"closed", "sentinel"}

RECURSIVE StripNewlines(_)
StripNewlines(s) ==
    IF s # <<>> /\ Last(s) = NL THEN StripNewlines(Front(s)) ELSE s

\* The last line of the body is the sentinel line, followed by a newline or not
EndsWithSentinelLine(bytes) ==
    Last(Split(StripNewlines(DecodeAll(bytes)), <<NL>>)) = DataPrefix \o DoneText

\* C2: for every body whose last line is the sentinel line "data: [DONE]",
\* followed by a newline or not, and for every chunking, when the stream has
\* ended the last two frames written are the stop frame and the end marker.
C2_SentinelLastPair ==
    (StreamEnded /\ EndsWithSentinelLine(body)) =>
        /\ Len(out) >= 2
        /\ out[Len(out) - 1] = StopFrame(req.params.model)
        /\ out[Len(out)] = DoneFrame

\* C3: under every chunking the frames written equal those written when the
\* same bytes arrive as a single chunk: for the bytes read so far once the
\* lines of a chunk have been processed (and the first of them while they are
\* being written), and when the stream has ended for the whole body.
C3_ChunkingInvariant ==
    body # Absent =>
        /\ IF Writing THEN IsPrefix(out, OneChunk(SubSeq(body, 1, pos)))
           ELSE out = OneChunk(SubSeq(body, 1, pos))
        /\ StreamEnded => out = OneChunk(body)

\* C3 witness: frames have been written, the last chunk ended in the middle of
\* a line and of a two-byte character, and bytes are still to come.
C3_Witness ==
    /\ pc = "read"
    /\ decoder # <<>>
    /\ buffer # <<>>
    /\ Len(out) >= 2
    /\ pos < Len(body)

DeltaText(f) ==
    IF IsContentFrame(f) /\ f.content # Undefined THEN f.content ELSE <<>>

ContentDeltas(frames) == Concat([i \in 1..Len(frames) |-> DeltaText(frames[i])])

\* C4: for every body, the content deltas of the non-terminal frames written
\* by the streaming path, concatenated in order, equal the message content the
\* non-streaming aggregation makes of the same body.
C4_StreamEqualsAggregate ==
    StreamEnded => ContentDeltas(out) = Aggregate(DecodeAll(body))

\* One frame per line, before the sentinel, that parses as a JSON object
RECURSIVE ObjectFrames(_, _)
ObjectFrames(model, lines) ==
    IF lines = <<>> \/ IsSentinelLine(Head(lines)) THEN <<>>
    ELSE LET v == JSONParse(Substring6(Head(lines)))
         IN  (IF v.kind = "object" THEN <<ContentFrame(model, v)>> ELSE <<>>)
                 \o ObjectFrames(model, Tail(lines))

\* C5: the content frames written are exactly one frame per complete line,
\* before the sentinel, whose stripped content parses as a JSON object, in the
\* order of arrival; a line that fails to parse writes nothing and stops
\* nothing.
C5_OneFramePerObjectLine ==
    (body # Absent /\ ~Writing) =>
        SelectSeq(out, IsContentFrame)
            = ObjectFrames(req.params.model, CompleteLines(Received))

AllLineFrames(model, lines) ==
    Concat([i \in 1..Len(lines) |-> LineFrames(model, Substring6(lines[i]))])

\* C6: when the backend stream closes gracefully, which it only does when no
\* sentinel line was processed, the callback has ended, the frames written
\* are those parsed from the complete lines received, and among them is
\* neither a frame with finish_reason "stop" nor the end marker.
C6_CloseWithoutSentinel ==
    exit = "closed" =>
        /\ pc = "done"
        /\ ~SentinelReceived
        /\ out = AllLineFrames(req.params.model, CompleteLines(DecodeAll(body)))
        /\ \A i \in 1..Len(out) :
            out[i].finish_reason # "stop" /\ out[i] # DoneFrame

\* C6 witness: a body without sentinel was read to its close and frames were
\* written.
C6_Witness ==
    /\ exit = "closed"
    /\ pos = Len(body)
    /\ Len(out) >= 2
    /\ \A i \in 1..Len(Split(DecodeAll(body), <<NL>>)) :
        ~IsSentinelLine(Split(DecodeAll(body), <<NL>>)[i])

\* C7: every backend chat call carries the model id of the request and a
\* message list of the same length and order, each message with its content
\* unchanged and its role unchanged, but "system" turned into "user".
C7_Translation ==
    \A c \in 1..Len(chats) :
        /\ chats[c].body.model = req.params.model
        /\ Len(chats[c].body.messages) = Len(req.params.messages)
        /\ \A i \in 1..Len(req.params.messages) :
            /\ chats[c].body.messages[i].content = req.params.messages[i].content
            /\ chats[c].body.messages[i].role
                 = IF req.params.messages[i].role = "system" THEN "user"
                   ELSE req.params.messages[i].role

\* C7 witness: a chat call was issued for a system message followed by an
\* assistant message.
C7_Witness ==
    /\ Len(chats) = 1
    /\ Len(req.params.messages) = 2
    /\ req.params.messages[1].role = "system"
    /\ req.params.messages[2].role = "assistant"
    /\ req.params.messages[1].content # req.params.messages[2].content

\* The frames of the non-streaming path: what blank lines separate
Paragraphs(bytes) == Split(DecodeAll(bytes), <<NL, NL>>)

FirstSentinel(frames) ==
    Min({i \in 1..Len(frames) : IsSentinelLine(frames[i])} \cup {Len(frames) + 1})

\* The message text of the frames before the sentinel frame, in order
TextBeforeSentinel(frames) ==
    Concat([i \in 1..(FirstSentinel(frames) - 1) |-> MessageText(Substring6(frames[i]))])

\* C8: in the non-streaming path the content of the returned message is the
\* concatenation, in order, of the message text of every frame before the
\* sentinel frame; later frames add nothing, and a frame that fails to parse
\* adds nothing and stops nothing.
C8_AggregatedContent ==
    (body # Absent /\ response.kind = "completion") =>
        response.content = TextBeforeSentinel(Paragraphs(body))

\* C8 witness: a completion with content, from a body with a frame that does
\* not parse before the sentinel frame and a frame with text after it.
C8_Witness ==
    /\ response.kind = "completion"
    /\ response.content # <<>>
    /\ \E i, k, j \in 1..Len(Paragraphs(body)) :
        /\ i < k /\ k < j
        /\ k = FirstSentinel(Paragraphs(body))
        /\ JSONParse(Substring6(Paragraphs(body)[i])).kind = "throws"
        /\ MessageText(Substring6(Paragraphs(body)[j])) # <<>>

\* C9: a request without caller-supplied token whose status probe yields no
\* token, the header being absent or the probe failing, ends with status 400
\* and no backend chat call is ever issued for it.
C9_NoTokenNoChat ==
    (Falsy(req.x4hdr) /\ probed # <<>>
        /\ (~probed[1].ok \/ Falsy(probed[1].token))) =>
        /\ pc = "done"
        /\ response.status = 400
        /\ chats = <<>>

\* C9 witness: the probe came back without the header and the request ended
\* with status 400.
C9_Witness ==
    /\ probed # <<>>
    /\ probed[1].ok
    /\ probed[1].token = Absent
    /\ req.x4hdr = Absent
    /\ response.status = 400

\* The header is a seven-character scheme prefix followed by the secret
CarriesSecret(authorization, key) ==
    /\ authorization # Absent
    /\ Len(authorization) = BearerLen + Len(key)
    /\ HasSuffix(authorization, key)

\* C10: with an operator secret configured, a request whose Authorization
\* header is absent or does not carry the secret ends with status 401, and
\* neither the status probe nor the backend chat call is ever issued for it.
C10_Unauthorized ==
    (req.apikey # <<>> /\ ~CarriesSecret(req.authorization, req.apikey)
        /\ pc # "start") =>
        /\ pc = "done"
        /\ response.status = 401
        /\ probes = 0
        /\ probed = <<>>
        /\ chats = <<>>

\* C10 witness: a request with a wrong key was answered with status 401.
C10_Witness ==
    /\ req.apikey # <<>>
    /\ req.authorization = Bearer(<<"x">>)
    /\ response.status = 401
    /\ response.error = "apikey error"

\* The x-vqd-4 header the backend's chat response came with, as a string
BackendHeader ==
    IF chatted[1].hdr = Absent THEN <<>> ELSE chatted[1].hdr

\* C11 as claimed: for every successful non-streaming request the x-vqd-4
\* response header equals the session token sent on the backend chat call.
C11_EchoesTokenSent ==
    response.kind = "completion" => echo = chats[1].token

\* C11: for every successful non-streaming request the x-vqd-4 response
\* header equals the x-vqd-4 header of the backend's chat response, and is the
\* empty string when that response has no such header.
C11_EchoesBackendHeader ==
    response.kind = "completion" =>
        /\ Len(chats) = 1 /\ Len(chatted) = 1
        /\ chatted[1].kind = "ok"
        /\ echo = BackendHeader

\* C11 witness: a completion was returned for a request sent with the
\* caller's token, and the header echoes the other token the backend gave.
C11_Witness ==
    /\ response.kind = "completion"
    /\ chats[1].token = CallerToken
    /\ chatted[1].hdr = BackendToken
    /\ echo = BackendToken

\* The backend chat calls issued all carry the token t
ChatsCarry(t) == \A c \in 1..Len(chats) : chats[c].token = t

\* C12 as claimed: whenever the inbound request carries an x-vqd-4 header, no
\* status probe is issued and the backend chat call carries exactly the
\* caller-supplied token.
C12_HeaderBypassesProbe ==
    req.x4hdr # Absent =>
        /\ probes = 0
        /\ probed = <<>>
        /\ ChatsCarry(req.x4hdr)

\* C12: whenever the inbound request carries an x-vqd-4 header whose value is
\* not empty, no status probe is issued and the backend chat call, issued as
\* soon as the request is authorized and its body read, carries exactly the
\* caller-supplied token.
C12_TokenBypassesProbe ==
    (req.x4hdr # Absent /\ req.x4hdr # <<>>) =>
        /\ probes = 0
        /\ probed = <<>>
        /\ ChatsCarry(req.x4hdr)
        /\ (pc \notin {"start", "json"} /\ response.status # 401) => Len(chats) = 1

\* C12 witness: the chat call of a request with a caller-supplied token has
\* been issued and answered.
C12_Witness ==
    /\ req.x4hdr = CallerToken
    /\ probes = 0
    /\ Len(chats) = 1
    /\ chats[1].token = CallerToken
    /\ Len(chatted) = 1

\* A read of the backend byte stream has been issued
ReadIssued ==
    \/ pc \in {"read", "write", "text"}
    \/ reader # "none"
    \/ pos > 0
    \/ response.kind = "completion"

\* C13: within one request at most one status probe and at most one chat
\* call are issued, the probe (when issued) has completed with a token before
\* the chat call is issued, and no read of the backend byte stream is issued
\* before the chat call has returned a success status; as this holds in every
\* state, it holds after every failure of the probe, of the chat call and of
\* a stream read.
C13_FixedSequence ==
    /\ probes <= 1
    /\ Len(probed) <= probes
    /\ Len(chats) <= 1
    /\ Len(chatted) <= Len(chats)
    /\ chats # <<>> =>
        /\ Len(probed) = probes
        /\ probes = 1 => (probed[1].ok /\ chats[1].token = probed[1].token)
    /\ ReadIssued => (Len(chatted) = 1 /\ chatted[1].kind = "ok")
    /\ (pc = "done" /\ response.status = 400) =>
        (pos = 0 /\ Len(probed) = probes /\ Len(chatted) = Len(chats))

\* C13 witness: a read of the stream failed, after one probe and one chat call.
C13_Witness ==
    /\ exit = "error"
    /\ probes = 1 /\ Len(probed) = 1
    /\ Len(chats) = 1 /\ Len(chatted) = 1

\* The backend chat call has returned a non-success status
NonSuccess == chatted # <<>> /\ chatted[1].kind \in {"notok", "notok-unreadable"}

\* After a non-success status the handler only reads the error text and
\* answers: no reader is acquired, no stream frame is written and no
\* completion is produced
NeitherStreamNorCompletion ==
    /\ pc \in {"errortext", "done"}
    /\ response.kind # "completion" /\ response.kind # "sse"
    /\ reader = "none" /\ exit = "running"
    /\ body = Absent /\ pos = 0
    /\ parts = <<>> /\ writing = <<>>
    /\ handed = <<>> /\ out = <<>>

\* C14 as claimed: when the backend chat call returns a non-success status the
\* request ends with status 400 and the payload {"error": "api request error",
\* "message": the backend's error text}, and no stream frame is written and no
\* completion is produced, whether stream is true, false or absent.
C14_CarriesErrorText ==
    NonSuccess =>
        /\ NeitherStreamNorCompletion
        /\ pc = "done" =>
            /\ response.status = 400
            /\ response.kind = "error"
            /\ response.error = "api request error"
            /\ response.message = chatted[1].text

\* C14: when the backend chat call returns a non-success status the request
\* ends with status 400, and no reader is acquired, no stream frame is written
\* and no completion is produced, whether stream is true, false or absent;
\* the payload is {"error": "api request error", "message": the backend's
\* error text} when that text can be read, and the payload of the handler's
\* catch, without the backend's text, when the read of it fails.
C14_BackendError ==
    NonSuccess =>
        /\ NeitherStreamNorCompletion
        /\ pc = "done" =>
            /\ response.status = 400
            /\ response.kind = "error"
            /\ IF chatted[1].kind = "notok"
               THEN response.error = "api request error"
                        /\ response.message = chatted[1].text
               ELSE response.error = "exception" /\ response.message = ""

\* C14 witness: a streaming request whose chat call returned a non-success
\* status was answered with status 400 and the backend's error text, once that
\* text had been read.
C14_Witness ==
    /\ Truthy(req.params.stream)
    /\ NonSuccess
    /\ chatted[1].kind = "notok"
    /\ pc = "done"
    /\ response.status = 400
    /\ response.error = "api request error"
    /\ response.message = "backend error"

\* C15: in the streaming path the reader, once acquired, is released exactly
\* once on every exit path: the stream closed, the sentinel was seen, a read
\* failed, a write to a caller that is gone failed; it is held only while
\* the callback awaits a read or a write, and in no terminal state is it
\* still held.
C15_ReaderReleasedOnce ==
    /\ releases <= 1
    /\ reader = "held" => (pc \in {"read", "write"} /\ exit = "running" /\ releases = 0)
    /\ reader = "released" => (pc = "done" /\ releases = 1)
    /\ pc = "done" =>
        /\ reader = "released"
        /\ releases = 1
        /\ exit \in {"closed", "sentinel", "error", "writefail"}

\* C15 witness: the caller went away between the write of the stop frame and
\* that of the end marker, which failed, and the reader was released.
C15_Witness ==
    /\ caller = "gone"
    /\ exit = "writefail"
    /\ out = <<StopFrame(req.params.model)>>
    /\ pc = "done"
    /\ reader = "released"
    /\ releases = 1

\* C16: when a read of the backend byte stream fails the callback ends; the
\* frames written are those of the chunks read before, all of them content
\* frames: nothing is written after the failure, neither a content frame nor
\* a stop frame, an end marker or an error frame.
C16_ReadFailureStops ==
    exit = "error" =>
        /\ pc = "done"
        /\ out = OneChunk(SubSeq(body, 1, pos))
        /\ \A i \in 1..Len(out) : IsContentFrame(out[i])

\* C16 witness: a read failed in the middle of the body, of a line and of a
\* two-byte character, after frames had been written.
C16_Witness ==
    /\ exit = "error"
    /\ 0 < pos /\ pos < Len(body)
    /\ Len(out) >= 1
    /\ buffer # <<>>
    /\ decoder # <<>>

\* The token a request uses: the caller's, or else the one its probe gave
TokenOf(l) ==
    IF ~Falsy(l.req.x4hdr) THEN l.req.x4hdr ELSE OrEmpty(l.probed[1].token)

\* What the bridge makes of the bytes a request has read, delivered at once
BridgeOf(l) ==
    ProcessChunk(l.req.params.model, <<>>, <<>>, SubSeq(l.body, 1, l.pos))

\* The buffer, the decoder, the lines processed and the frames of the locals
\* l are those of b, with the lines and frames of the last chunk in part
\* while its frames are being written
AsBridged(l, b) ==
    /\ l.buffer = b.buffer
    /\ l.decoder = b.decoder
    /\ IF l.pc = "write"
       THEN IsPrefix(l.handed, b.handed) /\ IsPrefix(l.out, b.frames)
       ELSE l.handed = b.handed /\ l.out = b.frames

\* The locals l are those of a request handled alone: its token, its chat
\* call, its buffer, its frames and its response come from its own request
\* and from the backend's replies to it.
Alone(l) ==
    /\ \A c \in 1..Len(l.chats) :
        l.chats[c] = ChatCall(TokenOf(l), Translate(l.req.params))
    /\ l.chats # <<>> => l.x4 = TokenOf(l)
    /\ l.body # Absent => AsBridged(l, BridgeOf(l))
    /\ l.body = Absent => (l.buffer = <<>> /\ l.out = <<>>)
    /\ l.response.kind = "completion" =>
        l.response = CompletionResponse(Aggregate(DecodeAll(l.body)))
    /\ l.response.kind = "sse" => Truthy(l.req.params.stream)
    /\ (l.response.kind = "error" /\ l.response.error = "api request error") =>
        l.response.message = l.chatted[1].text

\* C17: when two requests are handled concurrently and interleave at their
\* awaits, the token used, the line buffer, the frames written and the
\* response of each are those of that request handled alone.
C17_Isolation ==
    /\ Alone(Locals)
    /\ \A i \in DOMAIN parked : Alone(parked[i])

\* C17 witness: both requests are suspended between two frame writes of one
\* chunk, one with a frame written and the stop frame being written, the
\* other with its first frame being written and a fragment in its buffer,
\* and they use different tokens.
C17_Witness ==
    /\ parked # <<>>
    /\ pc = "write" /\ parked[1].pc = "write"
    /\ out # <<>> /\ writing[1].at = "stop"
    /\ parked[1].buffer # <<>> /\ parked[1].writing[1].at = "content"
    /\ buffer # parked[1].buffer
    /\ chats[1].token # parked[1].chats[1].token

\* The text received after the last newline seen so far
AfterLastNewline == Last(Split(Received, <<NL>>))

\* The lines up to the first sentinel line, that line included
ThroughSentinel(lines) ==
    SubSeq(lines, 1, Min({FirstSentinel(lines), Len(lines)}))

\* C18 as claimed: after each chunk the buffer holds exactly the text received
\* after the last newline seen so far, so no newline, and every text segment
\* before that newline has been handed to line processing exactly once (once
\* the lines of the chunk have been processed).
C18_BufferAndEverySegment ==
    body # Absent =>
        /\ buffer = AfterLastNewline
        /\ \A i \in 1..Len(buffer) : buffer[i] # NL
        /\ ~Writing => handed = CompleteLines(Received)

\* C18: after each chunk the buffer holds exactly the text received after the
\* last newline seen so far, so no newline, and every text segment before
\* that newline, up to and including the first sentinel line, has been handed
\* to line processing exactly once (the first of them while the lines of the
\* chunk are being processed); the segments after a sentinel line are never
\* handed to it.
C18_BufferAndSegments ==
    body # Absent =>
        /\ buffer = AfterLastNewline
        /\ \A i \in 1..Len(buffer) : buffer[i] # NL
        /\ IF Writing THEN IsPrefix(handed, ThroughSentinel(CompleteLines(Received)))
           ELSE handed = ThroughSentinel(CompleteLines(Received))

\* C18 witness: two segments have been handed to line processing, a fragment
\* waits in the buffer and the backend has more bytes.
C18_Witness ==
    /\ pc = "read"
    /\ Len(handed) >= 2
    /\ handed = CompleteLines(Received)
    /\ buffer # <<>>
    /\ pos < Len(body)

\* The prefix marker followed by the sentinel literal
IsPrefixedSentinel(line) == line = DataPrefix \o DoneText

FirstPrefixedSentinel(frames) ==
    Min({i \in 1..Len(frames) : IsPrefixedSentinel(frames[i])} \cup {Len(frames) + 1})

\* In the streaming path the stream is only ended, with the stop frame and
\* the end marker, by a line that is the prefix marker followed by "[DONE]"
StreamEndsAtPrefixedSentinel ==
    (exit = "sentinel" \/ \E i \in 1..Len(out) : out[i] = DoneFrame) =>
        \E i \in DOMAIN CompleteLines(Received) :
            IsPrefixedSentinel(CompleteLines(Received)[i])

\* In the non-streaming path the aggregation is only stopped by a frame that
\* is the prefix marker followed by "[DONE]"
AggregateStopsAtPrefixedSentinel ==
    response.kind = "completion" =>
        response.content
            = Concat([i \in 1..(FirstPrefixedSentinel(Paragraphs(body)) - 1) |->
                        MessageText(Substring6(Paragraphs(body)[i]))])

\* C19: in both paths a line is treated as the sentinel only when it is the
\* prefix marker "data: " followed by "[DONE]"; a line that does not start
\* with the prefix marker never ends the stream and never stops the
\* aggregation.
C19_SentinelNeedsPrefix ==
    StreamEndsAtPrefixedSentinel /\ AggregateStopsAtPrefixedSentinel

\* C20: every request that reaches the handler ends with exactly one
\* response: a 401 error, a 400 error, a 200 JSON completion or an event
\* stream; the handler never finishes without one, a backend reply with a
\* success status and no body on a non-streaming request included.
C20_AlwaysResponds ==
    pc = "done" =>
        \/ response.kind = "error" /\ response.status \in {400, 401}
        \/ response.kind = "completion" /\ response.status = 200
        \/ response.kind = "sse" /\ response.status = 200

====
